---- MODULE Spec2Model ----
(***************************************************************************)
(* Model of the Novel Noted data layer: the Firestore adapter              *)
(* (src/utils/firestoreStorage.ts), the Firestore security rules and the   *)
(* home page's listener effect (src/app/page.tsx), run by several browser  *)
(* sessions against one remote store.                                      *)
(*                                                                         *)
(* A JavaScript object is a function from the keys whose value is defined  *)
(* to those values; an API input additionally lists the keys it carries    *)
(* with the value undefined.  A Date is a number of milliseconds, a        *)
(* Firestore Timestamp a pair <<seconds, nanoseconds>>, JavaScript null in *)
(* a timestamp field the empty tuple.                                      *)
(***************************************************************************)
EXTENDS Integers, Sequences, FiniteSets, TLC

\* ---------------------------------------------------------------- bounds
MaxDocs == 2
MaxTime == 2
MaxCalls == 3
MaxFeedCalls == 2
MaxLiveCalls == 1
MaxPageCalls == 4
MaxScans == 2
MaxShown == 3
MaxPages == 6
MaxLookups == 3
MaxMoves == 2
MaxSearches == 3
MaxFound == 3
MinDigits == 9
MaxDigits == 11

\* ------------------------------------------------------------- constants
Users == {"u1", "u2"}
NoUser == "none"
Sessions == {"s1", "s2"}
COLLECTION_NAME == "books"
WISHLIST_COLLECTION_NAME == "wishlist"
Collections == {COLLECTION_NAME, WISHLIST_COLLECTION_NAME}
Ids == 1..MaxDocs
NoId == 0
Null == <<>>
Statuses == {"currently-reading", "read"}
IsbnDigits == 10

VARIABLES
    store,      \* store[c]: the documents of collection c, id -> data
    nextId,     \* next store-assigned document id
    now,        \* the clock read by new Date()
    authUser,   \* authUser[s]: auth.currentUser of session s
    op,         \* op[s]: the adapter call session s has in flight
    calls,      \* adapter calls still to be made
    user,       \* user[s]: the user state of the AuthProvider of session s
    home,       \* home[s]: the home page of session s: its state and its listener effect
    listener,   \* listener[s][c]: the onSnapshot listener of session s on collection c
    page,       \* page[s]: the book of the book page of session s, <<>> while it has none
    scan,       \* scan[s]: the barcode scanner dialog of session s
    stats,      \* stats[s]: what the home page of session s shows as its statistics
    authState,  \* authState[s]: the loading and error state of the AuthProvider of session s
    series,     \* series[s]: the series tab of the book page of session s
    search,     \* search[s]: the book search dialog of session s
    calc        \* a pure function of the program, its argument and its result

vars == <<store, nextId, now, authUser, op, calls, user, home, listener, page, scan, stats,
          authState, series, search, calc>>
feed == <<user, home, listener>>
tabs == <<authState, series, search, calc>>
views == <<page, scan, stats, tabs>>

\* ------------------------------------------------------------ timestamps
\* Timestamp.fromDate: milliseconds -> <<seconds, nanoseconds>>
fromDate(ms) == <<ms \div 1000, (ms % 1000) * 1000000>>

\* Timestamp.toDate: <<seconds, nanoseconds>> -> milliseconds
toDate(ts) == ts[1] * 1000 + (ts[2] \div 1000000)

\* ------------------------------------------------------- object helpers
Has(o, k) == k \in DOMAIN o

\* {}
Empty == [k \in {} |-> 0]

\* { ...a, ...b }
Spread(a, b) == [k \in DOMAIN a \cup DOMAIN b |-> IF k \in DOMAIN b THEN b[k] ELSE a[k]]

Only(o, keys) == [k \in DOMAIN o \cap keys |-> o[k]]

\* a JavaScript value is truthy: defined, not null (the fields tested are never 0 or "")
Truthy(o, k) == Has(o, k) /\ o[k] # Null

\* ------------------------------------------------------------ conversions
\* convertFirestoreDoc / convertWishListFirestoreDoc: a stored document to a record;
\* t is the value of new Date()
convertFirestoreDoc(c, id, data, t) ==
    Spread(
      Spread(Only(data, {"title", "isbn", "pages", "userId"}
                        \cup (IF c = COLLECTION_NAME
                              THEN {"status", "rating", "currentPage"} ELSE {})),
             [id |-> id,
              dateAdded |-> IF Truthy(data, "dateAdded") THEN toDate(data.dateAdded) ELSE t]),
      IF c = COLLECTION_NAME
      THEN Spread([ownershipType |-> IF Has(data, "ownershipType")
                                     THEN data.ownershipType ELSE "physical"],
                  [k \in {f \in {"dateStarted", "dateFinished"} : Truthy(data, f)}
                     |-> toDate(data[k])])
      ELSE Empty)

\* convertToFirestoreDoc / convertWishListToFirestoreDoc: the data written for a record
convertToFirestoreDoc(c, book, userId, t) ==
    Spread(
      Spread(book,
             [dateAdded |-> IF Has(book, "dateAdded") THEN fromDate(book.dateAdded)
                            ELSE fromDate(t),
              userId |-> userId]),
      IF c = COLLECTION_NAME
      THEN [k \in {"dateStarted", "dateFinished"}
              |-> IF Has(book, k) THEN fromDate(book[k]) ELSE Null]
      ELSE Empty)

\* the keys convertToFirestoreDoc always gives a value
Stamped(c) ==
    {"dateAdded", "userId"}
      \cup (IF c = COLLECTION_NAME THEN {"dateStarted", "dateFinished"} ELSE {})

\* ------------------------------------------------------------------ rules
\* allow read, write: if request.auth != null && request.auth.uid == resource.data.userId
AllowExisting(auth, c, id, st) ==
    /\ auth # NoUser
    /\ id \in DOMAIN st[c]
    /\ Has(st[c][id], "userId")
    /\ st[c][id].userId = auth

\* allow create: if request.auth != null && request.auth.uid == request.resource.data.userId
AllowCreate(auth, data) ==
    /\ auth # NoUser
    /\ Has(data, "userId")
    /\ data.userId = auth

\* ---------------------------------------------------------------- queries
\* orderBy('dateAdded', 'asc') in its place
BeforeAscending(c, st, i, j) ==
    LET a == st[c][i].dateAdded
        b == st[c][j].dateAdded
    IN  \/ a[1] < b[1]
        \/ a[1] = b[1] /\ a[2] < b[2]
        \/ a = b /\ i < j

\* the order of orderBy('dateAdded', 'desc'): by timestamp, ties by document id
Before(c, st, i, j) ==
    LET a == st[c][i].dateAdded
        b == st[c][j].dateAdded
    IN  \/ a[1] > b[1]
        \/ a[1] = b[1] /\ a[2] > b[2]
        \/ a = b /\ i > j

RECURSIVE Ordered(_, _, _)
Ordered(c, st, ids) ==
    IF ids = {} THEN <<>>
    ELSE LET first == CHOOSE i \in ids : \A j \in ids \ {i} : Before(c, st, i, j)
         IN  <<first>> \o Ordered(c, st, ids \ {first})

\* the query without its where('userId', '==', userId)
QueryEveryUser(c, st, userId, t) ==
    LET seq == Ordered(c, st, DOMAIN st[c])
    IN  [n \in 1..Len(seq) |-> convertFirestoreDoc(c, seq[n], st[c][seq[n]], t)]

\* query(collection(db, c), where('userId', '==', userId), orderBy('dateAdded', 'desc'))
\* and the map over its documents
QueryByUser(c, st, userId, t) ==
    LET ids == {i \in DOMAIN st[c] : Has(st[c][i], "userId") /\ st[c][i].userId = userId}
        seq == Ordered(c, st, ids)
    IN  [n \in 1..Len(seq) |-> convertFirestoreDoc(c, seq[n], st[c][seq[n]], t)]

\* where('userId', '==', userId), where('isbn', '==', isbn): the matching documents
\* in the store's default order, by document id
QueryByIsbn(c, st, userId, isbn) ==
    {i \in DOMAIN st[c] :
        /\ Has(st[c][i], "userId") /\ st[c][i].userId = userId
        /\ Has(st[c][i], "isbn") /\ st[c][i].isbn = isbn}

\* ----------------------------------------------------------------- inputs
Titles == {"t1", "t2"}
Isbns == {"i1"}

\* an API argument: the defined keys and the keys given as undefined
Arg(val, undef) == [val |-> val, undef |-> undef]

\* Omit<Book, 'id' | 'dateAdded'> as the add dialogs build it at time t
BookInputs(t) ==
    { Arg([title |-> "t1", isbn |-> "i1", pages |-> 1, status |-> "currently-reading",
           ownershipType |-> "physical", dateStarted |-> t], {"dateFinished"}),
      Arg([title |-> "t2", status |-> "read"], {"isbn", "pages", "dateStarted"}) }

\* Omit<WishListBook, 'id' | 'dateAdded'>
WishInputs ==
    { Arg([title |-> "t1", isbn |-> "i1", pages |-> 1], {}),
      Arg([title |-> "t2"], {}) }

Inputs(c, t) == IF c = COLLECTION_NAME THEN BookInputs(t) ELSE WishInputs

\* Partial<Book>
UpdateInputs(t) ==
    { Arg(Empty, {}),
      Arg([status |-> "read", dateFinished |-> t], {"dateStarted"}),
      Arg([title |-> "t2", dateAdded |-> t], {"isbn"}) }

\* ------------------------------------------------------------ call state
Result(kind, val) == [kind |-> kind, val |-> val]
Pending == Result("pending", <<>>)

\* op[s]: the function called and where it stands (pc), its arguments (c, id, arg and,
\* for updateBook, the partial: obj with the keys given as undefined in undef), the
\* identity it read (uid), the data it writes (doc), the record it holds (obj),
\* whether a write of it has changed the store (wrote) and what it returned (res)
Idle ==
    [name |-> "idle", pc |-> "idle", c |-> COLLECTION_NAME, id |-> NoId, uid |-> NoUser,
     doc |-> Empty, obj |-> Empty, undef |-> {}, arg |-> "", wrote |-> FALSE,
     res |-> Pending]

\* Home before it is mounted: useState([]), useState(null); no effect has run
NoHome ==
    [mounted |-> FALSE, books |-> <<>>, wishlist |-> <<>>, firestoreError |-> FALSE,
     deps |-> "unrun", cleanup |-> FALSE]

\* no live onSnapshot listener
NoListener == [status |-> "none", uid |-> NoUser, pending |-> FALSE]

\* the book page while it is not shown: useState<Book | null>(null)
NoPage == [open |-> FALSE, id |-> NoId, book |-> Null]

\* the scanner dialog as it opens: nothing scanned, no error, scanning; result is the
\* text last decoded, isbn the digits last searched for, pc the await handleBarcodeScan
\* is at, timer whether its setTimeout is pending
NoScan ==
    [scannedBook |-> Null, existingBook |-> Null, existingWishListBook |-> Null,
     isLoading |-> FALSE, error |-> "", scanning |-> TRUE,
     result |-> <<>>, isbn |-> <<>>, pc |-> "idle", timer |-> FALSE]

\* the home page has not rendered its statistics
NoStats == <<>>

\* the AuthProvider once onAuthStateChanged has reported: setLoading(false), no error
NoAuth == [loading |-> FALSE, error |-> "", pc |-> "idle"]

\* the series tab before it is shown: useState<SeriesBook[]>([]), useState(false)
NoSeries ==
    [activeTab |-> "overview", seriesBooks |-> <<>>, loadingSeries |-> FALSE,
     deps |-> <<Null, "overview", 0, FALSE>>, pc |-> "idle", books |-> <<>>,
     lookups |-> 0]

\* the search dialog as it opens: useState(''), useState<BookSearchResult[]>([])
NoSearch ==
    [searchQuery |-> <<>>, searchResults |-> <<>>, isSearching |-> FALSE, timer |-> {},
     inFlight |-> {}, issued |-> <<>>, searches |-> 0]

\* no function is being applied
NoCalc == [fn |-> "", arg |-> <<>>, out |-> <<>>]

InitTabs ==
    /\ authState = [s \in Sessions |-> NoAuth]
    /\ series = [s \in Sessions |-> NoSeries]
    /\ search = [s \in Sessions |-> NoSearch]
    /\ calc = NoCalc

Init ==
    /\ store = [c \in Collections |-> [i \in {} |-> Empty]]
    /\ nextId = 1
    /\ now = 1
    /\ authUser = [s \in Sessions |-> NoUser]
    /\ op = [s \in Sessions |-> Idle]
    /\ calls = MaxCalls
    /\ user = [s \in Sessions |-> NoUser]
    /\ home = [s \in Sessions |-> NoHome]
    /\ listener = [s \in Sessions |-> [c \in Collections |-> NoListener]]
    /\ page = [s \in Sessions |-> NoPage]
    /\ scan = [s \in Sessions |-> NoScan]
    /\ stats = [s \in Sessions |-> NoStats]
    /\ InitTabs

\* no settled call is waiting for its caller: a caller resumes at once
Settled == \A s \in Sessions : op[s].pc # "done"

\* every mounted home page has run its effect for the current user: React settles
\* before the next event
Rendered == \A s \in Sessions : home[s].mounted => home[s].deps = user[s]

Quiet == Settled /\ Rendered

\* new Date() moves on
Tick ==
    /\ Quiet
    /\ now < MaxTime
    /\ now' = now + 1
    /\ UNCHANGED <<store, nextId, authUser, op, calls, feed, views>>

\* authService.signIn / signUp / signInWithGoogle succeed: auth.currentUser is set and
\* the AuthProvider's onAuthStateChanged callback does setUser(user)
SignIn(s, u) ==
    /\ Quiet
    /\ authUser[s] = NoUser
    /\ authUser' = [authUser EXCEPT ![s] = u]
    /\ user' = [user EXCEPT ![s] = u]
    /\ UNCHANGED <<store, nextId, now, op, calls, home, listener, views>>

\* authService.signOut, and the callback's setUser(null)
SignOut(s) ==
    /\ Quiet
    /\ authUser[s] # NoUser
    /\ authUser' = [authUser EXCEPT ![s] = NoUser]
    /\ user' = [user EXCEPT ![s] = NoUser]
    /\ UNCHANGED <<store, nextId, now, op, calls, home, listener, views>>

\* one more adapter call, within the bound; the calls are made one at a time
Call ==
    /\ Quiet
    /\ calls > 0
    /\ \A s \in Sessions : op[s].pc = "idle"
    /\ calls' = calls - 1

\* a call in flight settles
Finish(s, res) == op' = [op EXCEPT ![s].pc = "done", ![s].res = res]

\* a call settles before its first await
Settle(s, name, c, id, res) ==
    op' = [op EXCEPT ![s] = [Idle EXCEPT !.name = name, !.pc = "done", !.c = c, !.id = id,
                                         !.uid = authUser[s], !.res = res]]

\* the caller takes the result of a settled call
Return(s) ==
    /\ op[s].pc = "done"
    /\ op' = [op EXCEPT ![s] = Idle]
    /\ UNCHANGED <<store, nextId, now, authUser, calls, feed, views>>

\* a call reaches its first await
Start(s, name, pc, c, id, doc, obj, arg) ==
    op' = [op EXCEPT ![s] = [Idle EXCEPT !.name = name, !.pc = pc, !.c = c, !.id = id,
                                         !.uid = authUser[s], !.doc = doc, !.obj = obj,
                                         !.arg = arg]]

\* ---------------------------------------------------------- store effects
\* addDoc
Created(st, c, id, data) ==
    [st EXCEPT ![c] = [i \in DOMAIN st[c] \cup {id} |-> IF i = id THEN data ELSE st[c][i]]]

\* updateDoc: the given fields replace the stored ones, the others stay
Updated(st, c, id, updates) == [st EXCEPT ![c][id] = Spread(st[c][id], updates)]

\* deleteDoc
Deleted(st, c, id) == [st EXCEPT ![c] = [i \in DOMAIN st[c] \ {id} |-> st[c][i]]]

\* a write that reaches the store and no listener
WriteUnheard(st) ==
    /\ store' = st
    /\ UNCHANGED listener

\* a write reaches the store: every live listener whose query result it changes has
\* a snapshot to deliver
Write(st) ==
    /\ store' = st
    /\ listener' = [s \in Sessions |-> [c \in Collections |->
           IF /\ listener[s][c].status = "active"
              /\ QueryByUser(c, st, listener[s][c].uid, now)
                   # QueryByUser(c, store, listener[s][c].uid, now)
           THEN [listener[s][c] EXCEPT !.pending = TRUE]
           ELSE listener[s][c]]]

\* ------------------------------------------------- getBooks, getWishListBooks
\* getCurrentUserId throws inside the try: the catch returns []
getBooks(s, c) ==
    /\ op[s].pc = "idle"
    /\ Call
    /\ IF authUser[s] = NoUser
       THEN Settle(s, "getBooks", c, NoId, Result("list", <<>>))
       ELSE Start(s, "getBooks", "getDocs", c, NoId, Empty, Empty, "")
    /\ UNCHANGED <<store, nextId, now, authUser, feed, views>>

\* await getDocs(q) settles: the mapped documents, or [] from the catch
getBooksReply(s) ==
    /\ Quiet
    /\ op[s].name = "getBooks" /\ op[s].pc = "getDocs"
    /\ \E ok \in BOOLEAN :
         Finish(s, Result("list",
                          IF ok /\ authUser[s] = op[s].uid
                          THEN QueryByUser(op[s].c, store, op[s].uid, now)
                          ELSE <<>>))
    /\ UNCHANGED <<store, nextId, now, authUser, calls, feed, views>>

\* --------------------------------------------------- addBook, addWishListBook
\* the part of addBook before its await: the data handed to addDoc and the record
\* to return; ok is FALSE when getCurrentUserId or addDoc throws at once (addDoc
\* rejects a field whose value is undefined)
AddPrepare(s, c, in, t) ==
    LET newBook == Spread(in.val, [dateAdded |-> t])
    IN  [ok  |-> authUser[s] # NoUser /\ in.undef \ Stamped(c) = {},
         doc |-> convertToFirestoreDoc(c, newBook, authUser[s], t),
         obj |-> Spread(newBook, [userId |-> authUser[s]])]

\* a catch that returns null, as updateBook's does
addBookCatchReturnsNull == Result("null", <<>>)

\* catch (error) { console.error(...); throw error; }
addBookCatch == Result("throw", <<>>)

addBook(s, c, in) ==
    /\ op[s].pc = "idle"
    /\ Call
    /\ LET p == AddPrepare(s, c, in, now)
       IN  IF p.ok
           THEN Start(s, "addBook", "addDoc", c, NoId, p.doc, p.obj, "")
           ELSE Settle(s, "addBook", c, NoId, addBookCatch)
    /\ UNCHANGED <<store, nextId, now, authUser, feed, views>>

\* the create is applied when the request arrives and the rules allow it
CanCreate(s, ok) == ok /\ nextId <= MaxDocs /\ AllowCreate(authUser[s], op[s].doc)

\* await addDoc settles: the record with its id, or the error rethrown
addBookReply(s) ==
    /\ Quiet
    /\ op[s].name = "addBook" /\ op[s].pc = "addDoc"
    /\ \E ok \in BOOLEAN :
         IF CanCreate(s, ok)
         THEN /\ Write(Created(store, op[s].c, nextId, op[s].doc))
              /\ nextId' = nextId + 1
              /\ op' = [op EXCEPT ![s].pc = "done", ![s].wrote = TRUE,
                                  ![s].res = Result("record",
                                                    <<Spread([id |-> nextId], op[s].obj)>>)]
         ELSE /\ Finish(s, addBookCatch)
              /\ UNCHANGED <<store, nextId, listener>>
    /\ UNCHANGED <<now, authUser, calls, user, home, views>>

\* ------------------------------------------------------------- updateBook
\* the forEach without its test of value !== undefined: an undefined value clears
\* the field (a date to null, a text to '')
firestoreUpdatesKeepsUndefined(in) ==
    [k \in DOMAIN in.val \cup in.undef
       |-> IF k \in in.undef
           THEN (IF k \in {"dateStarted", "dateFinished", "dateAdded"} THEN Null ELSE "")
           ELSE IF k \in {"dateStarted", "dateFinished", "dateAdded"}
                THEN fromDate(in.val[k]) ELSE in.val[k]]

\* the forEach over Object.entries(updates): undefined values are dropped, Dates
\* under the three date keys become Timestamps
firestoreUpdates(in) ==
    [k \in {f \in DOMAIN in.val \cup in.undef : f \notin in.undef}
       |-> IF k \in {"dateStarted", "dateFinished", "dateAdded"}
           THEN fromDate(in.val[k]) ELSE in.val[k]]

\* updateBook up to its await, for the caller named in arg: getCurrentUserId throws
\* inside the try and the catch returns null, or the call waits for updateDoc
updateBookCall(s, id, in, caller) ==
    IF authUser[s] = NoUser
    THEN op' = [op EXCEPT ![s] = [Idle EXCEPT !.name = "updateBook", !.pc = "done",
                                              !.id = id, !.uid = authUser[s],
                                              !.arg = caller,
                                              !.res = Result("null", <<>>)]]
    ELSE op' = [op EXCEPT ![s] = [Idle EXCEPT !.name = "updateBook", !.pc = "updateDoc",
                                              !.id = id, !.uid = authUser[s],
                                              !.doc = firestoreUpdates(in),
                                              !.obj = in.val, !.undef = in.undef,
                                              !.arg = caller]]

\* updateBook(id, updates)
updateBook(s, id, in) ==
    /\ op[s].pc = "idle"
    /\ Call
    /\ updateBookCall(s, id, in, "")
    /\ UNCHANGED <<store, nextId, now, authUser, feed, views>>

\* await updateDoc settles: on to the re-read, or null from the catch
updateBookWrite(s) ==
    /\ Quiet
    /\ op[s].name = "updateBook" /\ op[s].pc = "updateDoc"
    /\ \E ok \in BOOLEAN :
         IF ok /\ AllowExisting(authUser[s], op[s].c, op[s].id, store)
         THEN /\ Write(Updated(store, op[s].c, op[s].id, op[s].doc))
              /\ op' = [op EXCEPT ![s].pc = "getDocs",
                                  ![s].wrote = (Updated(store, op[s].c, op[s].id, op[s].doc)
                                                  # store)]
         ELSE /\ Finish(s, Result("null", <<>>))
              /\ UNCHANGED <<store, listener>>
    /\ UNCHANGED <<nextId, now, authUser, calls, user, home, views>>

\* querySnapshot.docs.find(doc => doc.id === id) over where('userId', '==', userId)
FindUpdated(s) ==
    LET docs == QueryByUser(op[s].c, store, op[s].uid, now)
        hit == {n \in 1..Len(docs) : docs[n].id = op[s].id}
    IN  IF hit = {} THEN Result("null", <<>>)
        ELSE Result("record", <<docs[CHOOSE n \in hit : TRUE]>>)

\* await getDocs(q) settles: the record read back, or null
updateBookRead(s) ==
    /\ Quiet
    /\ op[s].name = "updateBook" /\ op[s].pc = "getDocs"
    /\ \E ok \in BOOLEAN :
         Finish(s, IF ok /\ authUser[s] = op[s].uid THEN FindUpdated(s)
                   ELSE Result("null", <<>>))
    /\ UNCHANGED <<store, nextId, now, authUser, calls, feed, views>>

\* ----------------------------------------------- deleteBook, deleteWishListBook
\* no identity check: the call goes straight to deleteDoc
deleteBook(s, c, id) ==
    /\ op[s].pc = "idle"
    /\ Call
    /\ Start(s, "deleteBook", "deleteDoc", c, id, Empty, Empty, "")
    /\ UNCHANGED <<store, nextId, now, authUser, feed, views>>

\* await deleteDoc settles: true, or false from the catch
deleteBookReply(s) ==
    /\ Quiet
    /\ op[s].name = "deleteBook" /\ op[s].pc = "deleteDoc"
    /\ \E ok \in BOOLEAN :
         IF ok /\ AllowExisting(authUser[s], op[s].c, op[s].id, store)
         THEN /\ Write(Deleted(store, op[s].c, op[s].id))
              /\ op' = [op EXCEPT ![s].pc = "done", ![s].wrote = TRUE,
                                  ![s].res = Result("true", <<>>)]
         ELSE /\ Finish(s, Result("false", <<>>))
              /\ UNCHANGED <<store, listener>>
    /\ UNCHANGED <<nextId, now, authUser, calls, user, home, views>>

\* ------------------------------------- checkBookExists, checkWishListBookExists
\* if (!isbn) return null; then getCurrentUserId inside the try
checkBookExists(s, c, isbn) ==
    /\ op[s].pc = "idle"
    /\ Call
    /\ IF isbn = "" \/ authUser[s] = NoUser
       THEN Settle(s, "checkBookExists", c, NoId, Result("null", <<>>))
       ELSE Start(s, "checkBookExists", "getDocs", c, NoId, Empty, Empty, isbn)
    /\ UNCHANGED <<store, nextId, now, authUser, feed, views>>

\* await getDocs(q) settles: the first match, or null
checkBookExistsReply(s) ==
    /\ Quiet
    /\ op[s].name = "checkBookExists" /\ op[s].pc = "getDocs"
    /\ \E ok \in BOOLEAN :
         LET hit == QueryByIsbn(op[s].c, store, op[s].uid, op[s].arg)
         IN  Finish(s, IF ok /\ authUser[s] = op[s].uid /\ hit # {}
                       THEN LET i == CHOOSE i \in hit : \A j \in hit : i <= j
                            IN  Result("record",
                                       <<convertFirestoreDoc(op[s].c, i, store[op[s].c][i], now)>>)
                       ELSE Result("null", <<>>))
    /\ UNCHANGED <<store, nextId, now, authUser, calls, feed, views>>

\* ------------------------------------------- moveWishListBookToCollection
\* it starts with getWishListBooks, whose catch turns a missing identity into []:
\* find fails, the throw is caught, null
moveWishListBookToCollection(s, wishListBookId, status) ==
    /\ op[s].pc = "idle"
    /\ Call
    /\ IF authUser[s] = NoUser
       THEN Settle(s, "move", WISHLIST_COLLECTION_NAME, wishListBookId, Result("null", <<>>))
       ELSE Start(s, "move", "getDocs", WISHLIST_COLLECTION_NAME, wishListBookId,
                  Empty, Empty, status)
    /\ UNCHANGED <<store, nextId, now, authUser, feed, views>>

\* const newBook = { title: wishListBook.title, ..., status, ownershipType: 'physical',
\* dateStarted: ..., dateFinished: ... }
NewBookFrom(wishListBook, status, t) ==
    Arg(Spread(Only(wishListBook, {"title", "isbn", "pages"}),
               Spread([status |-> status, ownershipType |-> "physical"],
                      IF status = "currently-reading" THEN [dateStarted |-> t]
                      ELSE [dateFinished |-> t])),
        ({"title", "isbn", "pages"} \ DOMAIN wishListBook)
          \cup (IF status = "currently-reading" THEN {"dateFinished"} ELSE {"dateStarted"}))

\* a find that takes the first entry whatever its id
findFirst(wishListBooks, wishListBookId) == 1..Len(wishListBooks)

\* wishListBooks.find(book => book.id === wishListBookId): the positions that match
find(wishListBooks, wishListBookId) ==
    {n \in 1..Len(wishListBooks) : wishListBooks[n].id = wishListBookId}

\* await getWishListBooks settles; wishListBooks.find; then addBook up to its await
moveRead(s) ==
    /\ Quiet
    /\ op[s].name = "move" /\ op[s].pc = "getDocs"
    /\ \E ok \in BOOLEAN :
         LET wishListBooks == IF ok /\ authUser[s] = op[s].uid
                              THEN QueryByUser(WISHLIST_COLLECTION_NAME, store, op[s].uid, now)
                              ELSE <<>>
             hit == find(wishListBooks, op[s].id)
         IN  IF hit = {}
             THEN Finish(s, Result("null", <<>>))
             ELSE LET wishListBook == wishListBooks[CHOOSE n \in hit : TRUE]
                      p == AddPrepare(s, COLLECTION_NAME,
                                      NewBookFrom(wishListBook, op[s].arg, now), now)
                  IN  IF p.ok
                      THEN op' = [op EXCEPT ![s].pc = "addDoc", ![s].uid = authUser[s],
                                            ![s].doc = p.doc, ![s].obj = p.obj]
                      ELSE Finish(s, Result("null", <<>>))
    /\ UNCHANGED <<store, nextId, now, authUser, calls, feed, views>>

\* a move whose catch deletes the wishlist entry all the same
moveAddDeletesSource(s) ==
    /\ Quiet
    /\ op[s].name = "move" /\ op[s].pc = "addDoc"
    /\ \E ok \in BOOLEAN :
         IF CanCreate(s, ok)
         THEN /\ Write(Created(store, COLLECTION_NAME, nextId, op[s].doc))
              /\ nextId' = nextId + 1
              /\ op' = [op EXCEPT ![s].pc = "deleteDoc", ![s].wrote = TRUE,
                                  ![s].obj = Spread([id |-> nextId], op[s].obj)]
         ELSE /\ Write(Deleted(store, WISHLIST_COLLECTION_NAME, op[s].id))
              /\ Finish(s, Result("null", <<>>))
              /\ UNCHANGED nextId
    /\ UNCHANGED <<now, authUser, calls, user, home, views>>

\* await addBook settles: on to deleteWishListBook, or null from the catch
moveAdd(s) ==
    /\ Quiet
    /\ op[s].name = "move" /\ op[s].pc = "addDoc"
    /\ \E ok \in BOOLEAN :
         IF CanCreate(s, ok)
         THEN /\ Write(Created(store, COLLECTION_NAME, nextId, op[s].doc))
              /\ nextId' = nextId + 1
              /\ op' = [op EXCEPT ![s].pc = "deleteDoc", ![s].wrote = TRUE,
                                  ![s].obj = Spread([id |-> nextId], op[s].obj)]
         ELSE /\ Finish(s, Result("null", <<>>))
              /\ UNCHANGED <<store, nextId, listener>>
    /\ UNCHANGED <<now, authUser, calls, user, home, views>>

\* await deleteWishListBook settles (its false is not looked at): return addedBook
moveDelete(s) ==
    /\ Quiet
    /\ op[s].name = "move" /\ op[s].pc = "deleteDoc"
    /\ \E ok \in BOOLEAN :
         Write(IF ok /\ AllowExisting(authUser[s], WISHLIST_COLLECTION_NAME, op[s].id, store)
               THEN Deleted(store, WISHLIST_COLLECTION_NAME, op[s].id)
               ELSE store)
    /\ Finish(s, Result("record", <<op[s].obj>>))
    /\ UNCHANGED <<nextId, now, authUser, calls, user, home, views>>

\* --------------------------------------------------------------- the feed
\* a cleanup that leaves the listeners subscribed
UnsubscribedNever(l) == l

\* the cleanup the effect returned: unsubscribeBooks(); unsubscribeWishList()
Unsubscribed(l) == [c \in Collections |-> NoListener]

\* onBooksChange and onWishListBooksChange: onSnapshot(q, next, error) for the current
\* identity; the first snapshot is due at once
onBooksChange(s) ==
    [c \in Collections |-> [status |-> "active", uid |-> authUser[s], pending |-> TRUE]]

\* the router shows the home page
Mount(s) ==
    /\ Quiet
    /\ ~home[s].mounted
    /\ home' = [home EXCEPT ![s] = [NoHome EXCEPT !.mounted = TRUE]]
    /\ UNCHANGED <<store, nextId, now, authUser, op, calls, user, listener, views>>

\* the router leaves the home page: the effect's cleanup runs, the state is dropped
Unmount(s) ==
    /\ Quiet
    /\ home[s].mounted
    /\ home' = [home EXCEPT ![s] = NoHome]
    /\ listener' = [listener EXCEPT ![s] =
                      IF home[s].cleanup THEN Unsubscribed(listener[s]) ELSE @]
    /\ UNCHANGED <<store, nextId, now, authUser, op, calls, user, views>>

\* Home: useEffect(..., [user]) runs after mounting and when user changed, its previous
\* cleanup first; getCurrentUserId throwing inside onBooksChange lands in the catch
HomeEffect(s) ==
    /\ Settled
    /\ home[s].mounted
    /\ home[s].deps # user[s]
    /\ LET cleaned == IF home[s].cleanup THEN Unsubscribed(listener[s]) ELSE listener[s]
           setup == user[s] # NoUser /\ authUser[s] # NoUser
       IN  /\ listener' = [listener EXCEPT ![s] = IF setup THEN onBooksChange(s) ELSE cleaned]
           /\ home' = [home EXCEPT ![s].deps = user[s],
                                   ![s].cleanup = setup,
                                   ![s].firestoreError =
                                       IF user[s] # NoUser /\ authUser[s] = NoUser
                                       THEN TRUE ELSE @]
    /\ UNCHANGED <<store, nextId, now, authUser, op, calls, user, views>>

\* the store's client has a snapshot to hand to the listener of session s on c
Due(s, c) ==
    /\ Quiet
    /\ listener[s][c].status = "active"
    /\ listener[s][c].pending
    /\ authUser[s] = listener[s][c].uid

\* the listener's snapshot callback: callback(querySnapshot.docs.map(convert)), which in
\* Home is setBooks / setWishListBooks and setFirestoreError(null)
onSnapshotNext(s, c) ==
    /\ Due(s, c)
    /\ home' = [home EXCEPT ![s][c] = QueryByUser(c, store, listener[s][c].uid, now),
                            ![s].firestoreError = FALSE]
    /\ listener' = [listener EXCEPT ![s][c].pending = FALSE]
    /\ UNCHANGED <<store, nextId, now, authUser, op, calls, user, views>>

\* an error callback that subscribes again
onSnapshotErrorResubscribes(s, c) ==
    /\ Quiet
    /\ listener[s][c].status = "active"
    /\ home' = [home EXCEPT ![s][c] = <<>>, ![s].firestoreError = FALSE]
    /\ listener' = [listener EXCEPT ![s][c].pending = TRUE]
    /\ UNCHANGED <<store, nextId, now, authUser, op, calls, user, views>>

\* the listener's error callback: callback([]); the store sends nothing more to a
\* listener that has failed
onSnapshotError(s, c) ==
    /\ Quiet
    /\ listener[s][c].status = "active"
    /\ home' = [home EXCEPT ![s][c] = <<>>, ![s].firestoreError = FALSE]
    /\ listener' = [listener EXCEPT ![s][c] = [NoListener EXCEPT !.status = "error"]]
    /\ UNCHANGED <<store, nextId, now, authUser, op, calls, user, views>>

\* ------------------------------------------------------------------- spec
Auth(s) ==
    \/ \E u \in Users : SignIn(s, u)
    \/ SignOut(s)

\* the adapter's functions that read
Reads(s) ==
    \/ \E c \in Collections : getBooks(s, c)
    \/ \E c \in Collections, isbn \in Isbns \cup {""} : checkBookExists(s, c, isbn)
    \/ getBooksReply(s)
    \/ checkBookExistsReply(s)

\* the adapter's functions that write one record
Writes(s) ==
    \/ \E c \in Collections : \E in \in Inputs(c, now) : addBook(s, c, in)
    \/ \E c \in Collections, id \in Ids : deleteBook(s, c, id)
    \/ \E id \in Ids, in \in UpdateInputs(now) : updateBook(s, id, in)
    \/ addBookReply(s)
    \/ updateBookWrite(s)
    \/ updateBookRead(s)
    \/ deleteBookReply(s)

\* the move of a wishlist entry to the collection
Moves(s) ==
    \/ \E id \in Ids, status \in Statuses : moveWishListBookToCollection(s, id, status)
    \/ moveRead(s)
    \/ moveAdd(s)
    \/ moveDelete(s)

\* the home page's listeners
Feed(s) ==
    \/ Mount(s)
    \/ Unmount(s)
    \/ HomeEffect(s)
    \/ \E c \in Collections : onSnapshotNext(s, c)
    \/ \E c \in Collections : onSnapshotError(s, c)

\* the adapter as its callers use it
Next ==
    \/ \E s \in Sessions : Return(s)
    \/ Tick
    \/ \E s \in Sessions : Auth(s) \/ Reads(s) \/ Writes(s) \/ Moves(s)

Spec == Init /\ [][Next]_vars

\* the sessions that show the home page
Viewers == {"s1"}

InitFeed ==
    /\ store = [c \in Collections |-> [i \in {} |-> Empty]]
    /\ nextId = 1
    /\ now = 1
    /\ authUser = [s \in Sessions |-> NoUser]
    /\ op = [s \in Sessions |-> Idle]
    /\ calls = MaxFeedCalls
    /\ user = [s \in Sessions |-> NoUser]
    /\ home = [s \in Sessions |-> NoHome]
    /\ listener = [s \in Sessions |-> [c \in Collections |-> NoListener]]
    /\ page = [s \in Sessions |-> NoPage]
    /\ scan = [s \in Sessions |-> NoScan]
    /\ stats = [s \in Sessions |-> NoStats]
    /\ InitTabs

\* the adapter's writes with a home page listening
NextFeed ==
    \/ \E s \in Sessions : Return(s)
    \/ Tick
    \/ \E s \in Sessions : Auth(s) \/ Writes(s) \/ Moves(s)
    \/ \E s \in Viewers : Feed(s)

SpecFeed == InitFeed /\ [][NextFeed]_vars

\* a store that holds one Book, which u1 added at time 1 through the add dialog
Stocked ==
    LET in == CHOOSE b \in BookInputs(1) : b.undef \ Stamped(COLLECTION_NAME) = {}
    IN  Created([c \in Collections |-> [i \in {} |-> Empty]], COLLECTION_NAME, 1,
                convertToFirestoreDoc(COLLECTION_NAME, Spread(in.val, [dateAdded |-> 1]),
                                      "u1", 1))

InitLive ==
    /\ store = Stocked
    /\ nextId = 2
    /\ now = 1
    /\ authUser = [s \in Sessions |-> NoUser]
    /\ op = [s \in Sessions |-> Idle]
    /\ calls = MaxLiveCalls
    /\ user = [s \in Sessions |-> NoUser]
    /\ home = [s \in Sessions |-> NoHome]
    /\ listener = [s \in Sessions |-> [c \in Collections |-> NoListener]]
    /\ page = [s \in Sessions |-> NoPage]
    /\ scan = [s \in Sessions |-> NoScan]
    /\ stats = [s \in Sessions |-> NoStats]
    /\ InitTabs

\* a write of one record with a home page listening
NextLive ==
    \/ \E s \in Sessions : Return(s)
    \/ Tick
    \/ \E s \in Sessions : Auth(s) \/ Writes(s)
    \/ \E s \in Viewers : Feed(s)

\* the event loop resumes a caller whose call has settled, React runs a pending effect
\* and the store's client hands a live listener the snapshot that is due: weak fairness
\* of Return, HomeEffect and onSnapshotNext, the last with Due for its ENABLED
SpecLive ==
    /\ InitLive /\ [][NextLive]_vars
    /\ \A s \in Sessions : WF_vars(Return(s))
    /\ \A s \in Viewers : WF_vars(HomeEffect(s))
    /\ \A s \in Viewers, c \in Collections :
         []<>(~Due(s, c)) \/ []<><<onSnapshotNext(s, c)>>_vars

\* ------------------------------------------------------------ the book page
\* the sessions that show the book page
Readers == {"s1"}

\* the star buttons offer 1..5, the current page field takes any number
Stars == {1}
PageNumbers == {0, 2}

\* a store that holds one Book of u1, which moveWishListBookToCollection made at time 1
\* from the wishlist entry with id 1, as read: dateFinished is set, dateStarted is null
Shelved ==
    LET in == NewBookFrom([title |-> "t1", isbn |-> "i1", pages |-> 1], "read", 1)
    IN  Created([c \in Collections |-> [i \in {} |-> Empty]], COLLECTION_NAME, 2,
                convertToFirestoreDoc(COLLECTION_NAME, Spread(in.val, [dateAdded |-> 1]),
                                      "u1", 1))

\* nobody is signed in; budget calls are to be made
Shelf(budget) ==
    /\ store = Shelved
    /\ nextId = 3
    /\ now = 1
    /\ authUser = [s \in Sessions |-> NoUser]
    /\ op = [s \in Sessions |-> Idle]
    /\ calls = budget
    /\ user = [s \in Sessions |-> NoUser]
    /\ home = [s \in Sessions |-> NoHome]
    /\ listener = [s \in Sessions |-> [c \in Collections |-> NoListener]]
    /\ page = [s \in Sessions |-> NoPage]
    /\ scan = [s \in Sessions |-> NoScan]
    /\ stats = [s \in Sessions |-> NoStats]
    /\ InitTabs

InitPage == Shelf(MaxPageCalls)

\* the scanner is used over a library that holds the same Book as its first document
InitScan ==
    /\ store = [c \in Collections |->
                  IF c = COLLECTION_NAME THEN [i \in {1} |-> Shelved[c][2]]
                  ELSE [i \in {} |-> Empty]]
    /\ nextId = 2
    /\ now = 1
    /\ authUser = [s \in Sessions |-> NoUser]
    /\ op = [s \in Sessions |-> Idle]
    /\ calls = MaxScans
    /\ user = [s \in Sessions |-> NoUser]
    /\ home = [s \in Sessions |-> NoHome]
    /\ listener = [s \in Sessions |-> [c \in Collections |-> NoListener]]
    /\ page = [s \in Sessions |-> NoPage]
    /\ scan = [s \in Sessions |-> NoScan]
    /\ stats = [s \in Sessions |-> NoStats]
    /\ InitTabs

\* the page is opened for params.id by a signed-in user (without one the effect does
\* router.push('/')); its effect calls loadBook, which awaits getBooks
loadBook(s, id) ==
    /\ ~page[s].open
    /\ user[s] # NoUser
    /\ op[s].pc = "idle"
    /\ Call
    /\ page' = [page EXCEPT ![s] = [open |-> TRUE, id |-> id, book |-> Null]]
    /\ Start(s, "getBooks", "getDocs", COLLECTION_NAME, id, Empty, Empty, "page")
    /\ UNCHANGED <<store, nextId, now, authUser, feed, scan, stats, tabs>>

\* loadBook after its await: books.find(b => b.id === params.id), then setBook, or
\* router.push('/') which takes the page down
loadBookFound(s) ==
    /\ op[s].pc = "done" /\ op[s].name = "getBooks" /\ op[s].arg = "page"
    /\ LET books == op[s].res.val
           hit == {n \in 1..Len(books) : books[n].id = op[s].id}
       IN  page' = [page EXCEPT ![s] =
                      IF ~page[s].open \/ hit = {} THEN NoPage
                      ELSE [page[s] EXCEPT !.book = books[CHOOSE n \in hit : TRUE]]]
    /\ op' = [op EXCEPT ![s] = Idle]
    /\ UNCHANGED <<store, nextId, now, authUser, calls, feed, scan, stats, tabs>>

\* const updates = { status: newStatus }, with the dates handleStatusChange adds from
\* the page's book at time t
StatusUpdates(book, newStatus, t) ==
    Spread([status |-> newStatus],
           IF newStatus = "currently-reading" /\ ~Has(book, "dateStarted")
           THEN [dateStarted |-> t]
           ELSE IF newStatus = "read"
                THEN Spread(IF ~Has(book, "dateStarted") THEN [dateStarted |-> t]
                            ELSE Empty,
                            [dateFinished |-> t])
                ELSE Empty)

\* an event handler of the page starts: the page shows its book and no call of the
\* session is in flight
Shown(s) ==
    /\ page[s].open
    /\ page[s].book # Null
    /\ op[s].pc = "idle"
    /\ Call

\* handleStatusChange up to its await
handleStatusChange(s, newStatus) ==
    /\ Shown(s)
    /\ updateBookCall(s, page[s].book.id,
                      Arg(StatusUpdates(page[s].book, newStatus, now), {}), "page")
    /\ UNCHANGED <<store, nextId, now, authUser, feed, views>>

\* handleRatingChange up to its await
handleRatingChange(s, rating) ==
    /\ Shown(s)
    /\ updateBookCall(s, page[s].book.id, Arg([rating |-> rating], {}), "page")
    /\ UNCHANGED <<store, nextId, now, authUser, feed, views>>

\* the current page field, shown when book.status === 'currently-reading' &&
\* book.pages: onChange calls handleProgressUpdate(parseInt(e.target.value) || 0)
handleProgressUpdate(s, currentPage) ==
    /\ Shown(s)
    /\ page[s].book.status = "currently-reading"
    /\ Has(page[s].book, "pages")
    /\ updateBookCall(s, page[s].book.id, Arg([currentPage |-> currentPage], {}), "page")
    /\ UNCHANGED <<store, nextId, now, authUser, feed, views>>

\* the handler after await updateBook, whatever the call returned:
\* setBook({ ...book, ...updates })
setBook(s) ==
    /\ op[s].pc = "done" /\ op[s].name = "updateBook" /\ op[s].arg = "page"
    /\ page' = [page EXCEPT ![s] =
                  IF page[s].open /\ page[s].book # Null
                  THEN [page[s] EXCEPT !.book = Spread(page[s].book, op[s].obj)]
                  ELSE page[s]]
    /\ op' = [op EXCEPT ![s] = Idle]
    /\ UNCHANGED <<store, nextId, now, authUser, calls, feed, scan, stats, tabs>>

\* handleSignOut: await signOut(), router.push('/'); the effect of a page without a
\* user does the same
handleSignOut(s) ==
    /\ Quiet
    /\ page[s].open
    /\ authUser[s] # NoUser
    /\ authUser' = [authUser EXCEPT ![s] = NoUser]
    /\ user' = [user EXCEPT ![s] = NoUser]
    /\ page' = [page EXCEPT ![s] = NoPage]
    /\ UNCHANGED <<store, nextId, now, op, calls, home, listener, scan, stats, tabs>>

\* the book page
Page(s) ==
    \/ \E id \in Ids : loadBook(s, id)
    \/ loadBookFound(s)
    \/ \E newStatus \in Statuses : handleStatusChange(s, newStatus)
    \/ \E rating \in Stars : handleRatingChange(s, rating)
    \/ \E currentPage \in PageNumbers : handleProgressUpdate(s, currentPage)
    \/ setBook(s)
    \/ handleSignOut(s)

\* one reader of the book page and the store behind it
NextPage ==
    \/ Tick
    \/ \E s \in Readers : \E u \in Users : SignIn(s, u)
    \/ \E s \in Readers : Page(s)
    \/ \E s \in Readers : getBooksReply(s) \/ updateBookWrite(s) \/ updateBookRead(s)

SpecPage == InitPage /\ [][NextPage]_vars

\* -------------------------------------------------- the home page's book cards
\* BookCard.handleRatingChange: onUpdate(book.id, { rating }), which Home wires to
\* handleUpdateBook({ ...book, ...updates }): updateBook(updatedBook.id, updatedBook)
\* with the whole record of the n-th card; other sessions may have calls in flight
handleUpdateBook(s, n, rating) ==
    /\ Quiet
    /\ home[s].mounted
    /\ n \in 1..Len(home[s].books)
    /\ op[s].pc = "idle"
    /\ calls > 0
    /\ calls' = calls - 1
    /\ updateBookCall(s, home[s].books[n].id,
                      Arg(Spread(home[s].books[n], [rating |-> rating]), {}), "card")
    /\ UNCHANGED <<store, nextId, now, authUser, feed, views>>

\* a home page with its cards in one session, the book page in another
NextRace ==
    \/ Tick
    \/ \E s \in Sessions : SignIn(s, "u1")
    \/ \E s \in Viewers : Feed(s) \/ Return(s)
    \/ \E s \in Viewers : \E n \in 1..MaxDocs, rating \in Stars : handleUpdateBook(s, n, rating)
    \/ \E s \in Sessions \ Viewers : Page(s)
    \/ \E s \in Sessions : getBooksReply(s) \/ updateBookWrite(s) \/ updateBookRead(s)

SpecRace == InitPage /\ [][NextRace]_vars

\* ------------------------------------------------------- the barcode scanner
DigitChars == {"9", "7"}

\* n digits
Digits(n) == [i \in 1..n |-> IF i % 2 = 1 THEN "9" ELSE "7"]

\* what the reader decodes: digits alone, with a hyphen after the prefix, or ending in
\* the check character X
Barcodes ==
    {Digits(n) : n \in MinDigits..MaxDigits}
      \cup {Digits(3) \o <<"-">> \o Digits(n - 3) : n \in MinDigits..MaxDigits}
      \cup {Digits(n) \o <<"X">> : n \in MinDigits..MaxDigits}

\* a replace that removes nothing
ReplaceNothing(result) == result

\* result.replace(/[^\d]/g, '')
Replace(result) == SelectSeq(result, LAMBDA ch : ch \in DigitChars)

InvalidBarcode == "Invalid barcode. Please try scanning again."
BookNotFound == "Book not found. Try scanning again or search manually."
SearchError == "Error searching for book. Please try again."

\* books[0] of googleBooksAPI.searchBooks
FoundBook == [title |-> "t1", isbn |-> "i1"]

\* scanFrame decodes result while the interval runs (scanning, no error, nothing
\* scanned, not loading) and calls handleBarcodeScan, which runs to its return or to
\* await searchBooks; the return runs the finally
handleBarcodeScan(s, result) ==
    /\ Quiet
    /\ calls > 0
    /\ scan[s].pc = "idle" /\ op[s].pc = "idle"
    /\ scan[s].scanning /\ scan[s].error = ""
    /\ result # <<>> /\ ~scan[s].isLoading /\ scan[s].scannedBook = Null
    /\ calls' = calls - 1
    /\ LET isbn == Replace(result)
       IN  scan' = [scan EXCEPT ![s] =
                      IF Len(isbn) < IsbnDigits
                      THEN [@ EXCEPT !.scanning = FALSE, !.isLoading = FALSE,
                                     !.error = InvalidBarcode, !.timer = TRUE,
                                     !.result = result]
                      ELSE [@ EXCEPT !.scanning = FALSE, !.isLoading = TRUE,
                                     !.error = "", !.pc = "search",
                                     !.result = result, !.isbn = isbn]]
    /\ UNCHANGED <<store, nextId, now, authUser, op, feed, page, stats, tabs>>

\* await searchBooks settles: a book, which is set and looked up with checkBookExists
\* (foundBook.isbn || isbn), or none, or the catch; then the finally
searchBooksReply(s) ==
    /\ Quiet
    /\ scan[s].pc = "search"
    /\ \E found \in {"book", "none", "error"} :
         IF found = "book"
         THEN /\ scan' = [scan EXCEPT ![s].scannedBook = FoundBook, ![s].pc = "books"]
              /\ IF authUser[s] = NoUser
                 THEN Settle(s, "checkBookExists", COLLECTION_NAME, NoId,
                             Result("null", <<>>))
                 ELSE Start(s, "checkBookExists", "getDocs", COLLECTION_NAME, NoId,
                            Empty, Empty, FoundBook.isbn)
         ELSE /\ scan' = [scan EXCEPT ![s].error = IF found = "none" THEN BookNotFound
                                                   ELSE SearchError,
                                      ![s].timer = TRUE, ![s].isLoading = FALSE,
                                      ![s].pc = "idle"]
              /\ UNCHANGED op
    /\ UNCHANGED <<store, nextId, now, authUser, calls, feed, page, stats, tabs>>

\* await checkBookExists settles: setExistingBook, then checkWishListBookExists; when
\* that settles setExistingWishListBook and the finally
scanChecked(s) ==
    /\ op[s].pc = "done" /\ op[s].name = "checkBookExists"
    /\ scan[s].pc \in {"books", "wishlist"}
    /\ LET existing == IF op[s].res.kind = "record" THEN op[s].res.val[1] ELSE Null
       IN  IF scan[s].pc = "books"
           THEN /\ scan' = [scan EXCEPT ![s].existingBook = existing,
                                        ![s].pc = "wishlist"]
                /\ IF authUser[s] = NoUser
                   THEN Settle(s, "checkBookExists", WISHLIST_COLLECTION_NAME, NoId,
                               Result("null", <<>>))
                   ELSE Start(s, "checkBookExists", "getDocs", WISHLIST_COLLECTION_NAME,
                              NoId, Empty, Empty, FoundBook.isbn)
           ELSE /\ scan' = [scan EXCEPT ![s].existingWishListBook = existing,
                                        ![s].isLoading = FALSE, ![s].pc = "idle"]
                /\ op' = [op EXCEPT ![s] = Idle]
    /\ UNCHANGED <<store, nextId, now, authUser, calls, feed, page, stats, tabs>>

\* the setTimeout of a scan that set an error: setScanning(true); setIsLoading(false)
scanTimeout(s) ==
    /\ Quiet
    /\ scan[s].timer
    /\ scan' = [scan EXCEPT ![s].timer = FALSE, ![s].scanning = TRUE,
                            ![s].isLoading = FALSE]
    /\ UNCHANGED <<store, nextId, now, authUser, op, calls, feed, page, stats, tabs>>

\* handleScanAgain
handleScanAgain(s) ==
    /\ Quiet
    /\ scan[s].pc = "idle"
    /\ scan[s].scannedBook # Null \/ scan[s].error # ""
    /\ scan' = [scan EXCEPT ![s].scannedBook = Null, ![s].existingBook = Null,
                            ![s].existingWishListBook = Null, ![s].error = "",
                            ![s].scanning = TRUE, ![s].isLoading = FALSE]
    /\ UNCHANGED <<store, nextId, now, authUser, op, calls, feed, page, stats, tabs>>

\* the buttons Add to Library and Add to Wish List are rendered: a scanned book, no
\* existingBook and no existingWishListBook
AddOffered(s) ==
    /\ scan[s].scannedBook # Null
    /\ scan[s].existingBook = Null
    /\ scan[s].existingWishListBook = Null

\* handleAddToLibrary: onAddBook(bookData), which is Home.handleAddBook and awaits
\* addBook, then onClose(); the dialog resets when it opens again
handleAddToLibrary(s, status) ==
    /\ AddOffered(s)
    /\ scan[s].pc = "idle" /\ op[s].pc = "idle"
    /\ Call
    /\ LET bookData ==
             Arg(Spread(scan[s].scannedBook,
                        Spread([status |-> status, ownershipType |-> "physical"],
                               IF status = "currently-reading"
                               THEN [dateStarted |-> now]
                               ELSE [dateFinished |-> now])),
                 IF status = "currently-reading" THEN {"dateFinished"}
                 ELSE {"dateStarted"})
           p == AddPrepare(s, COLLECTION_NAME, bookData, now)
       IN  IF p.ok
           THEN Start(s, "addBook", "addDoc", COLLECTION_NAME, NoId, p.doc, p.obj, "")
           ELSE Settle(s, "addBook", COLLECTION_NAME, NoId, addBookCatch)
    /\ scan' = [scan EXCEPT ![s] = NoScan]
    /\ UNCHANGED <<store, nextId, now, authUser, feed, page, stats, tabs>>

\* handleAddToWishListAction: onAddToWishList(wishListBookData), which awaits
\* addWishListBook, then onClose()
handleAddToWishListAction(s) ==
    /\ AddOffered(s)
    /\ scan[s].pc = "idle" /\ op[s].pc = "idle"
    /\ Call
    /\ LET p == AddPrepare(s, WISHLIST_COLLECTION_NAME, Arg(scan[s].scannedBook, {}), now)
       IN  IF p.ok
           THEN Start(s, "addBook", "addDoc", WISHLIST_COLLECTION_NAME, NoId, p.doc,
                      p.obj, "")
           ELSE Settle(s, "addBook", WISHLIST_COLLECTION_NAME, NoId, addBookCatch)
    /\ scan' = [scan EXCEPT ![s] = NoScan]
    /\ UNCHANGED <<store, nextId, now, authUser, feed, page, stats, tabs>>

\* the scanner dialog of one session and the store behind it
NextScan ==
    \/ \E s \in Readers : Auth(s)
    \/ \E s \in Readers : \E result \in Barcodes : handleBarcodeScan(s, result)
    \/ \E s \in Readers : searchBooksReply(s) \/ scanChecked(s) \/ checkBookExistsReply(s)
    \/ \E s \in Readers : scanTimeout(s) \/ handleScanAgain(s)
    \/ \E s \in Readers : \E status \in Statuses : handleAddToLibrary(s, status)
    \/ \E s \in Readers : handleAddToWishListAction(s)
    \/ \E s \in Readers : addBookReply(s) \/ (op[s].name = "addBook" /\ Return(s))

SpecScan == InitScan /\ [][NextScan]_vars

\* ------------------------------------------------------------ the statistics
\* the books a home page may hold: a status, and pages or none
ShownBooks ==
    [status : Statuses] \cup [status : Statuses, pages : {200, 300}]

\* the lists of at most n elements of S
Lists(S, n) == UNION {[1..k -> S] : k \in 0..n}

\* the wishlist entries a home page may hold
ShownWishes == {[title |-> "t1"]}

\* a home page holding any books and any wishlist, its statistics not yet rendered
InitStats ==
    /\ store = [c \in Collections |-> [i \in {} |-> Empty]]
    /\ nextId = 1
    /\ now = 1
    /\ authUser = [s \in Sessions |-> NoUser]
    /\ op = [s \in Sessions |-> Idle]
    /\ calls = 0
    /\ user = [s \in Sessions |-> NoUser]
    /\ \E books \in Lists(ShownBooks, MaxShown), wishListBooks \in Lists(ShownWishes, 1) :
         home = [s \in Sessions |->
                   IF s \in Viewers
                   THEN [NoHome EXCEPT !.mounted = TRUE, !.deps = NoUser,
                                       !.books = books, !.wishlist = wishListBooks]
                   ELSE NoHome]
    /\ listener = [s \in Sessions |-> [c \in Collections |-> NoListener]]
    /\ page = [s \in Sessions |-> NoPage]
    /\ scan = [s \in Sessions |-> NoScan]
    /\ stats = [s \in Sessions |-> NoStats]
    /\ InitTabs

\* books.filter(book => book.status === status)
filter(books, status) == SelectSeq(books, LAMBDA book : book.status = status)

\* .reduce((sum, book) => sum + (book.pages || 0), 0)
RECURSIVE reduce(_)
reduce(books) ==
    IF books = <<>> THEN 0
    ELSE (IF Has(Head(books), "pages") THEN Head(books).pages ELSE 0) + reduce(Tail(books))

\* a getStats that adds up the pages of every book
getStatsOfAll(books, wishListBooks) ==
    [reading |-> Len(filter(books, "currently-reading")),
     completed |-> Len(filter(books, "read")),
     totalPages |-> reduce(books),
     wishList |-> Len(wishListBooks)]

\* getStats over the page's books and wishListBooks
getStats(books, wishListBooks) ==
    [reading |-> Len(filter(books, "currently-reading")),
     completed |-> Len(filter(books, "read")),
     totalPages |-> reduce(filter(books, "read")),
     wishList |-> Len(wishListBooks)]

\* getTabCount
getTabCount(books, wishListBooks, tab) ==
    IF tab = "all" THEN Len(books)
    ELSE IF tab = "wishlist" THEN Len(wishListBooks)
    ELSE Len(filter(books, tab))

\* the home page renders: const stats = getStats(), and the tabs with their counts
Render(s) ==
    /\ home[s].mounted
    /\ stats[s] = NoStats
    /\ stats' = [stats EXCEPT ![s] =
                   [stats |-> getStats(home[s].books, home[s].wishlist),
                    tabs |-> [tab \in Statuses \cup {"all", "wishlist"} |->
                                getTabCount(home[s].books, home[s].wishlist, tab)]]]
    /\ UNCHANGED <<store, nextId, now, authUser, op, calls, feed, page, scan, tabs>>

NextStats == \E s \in Viewers : Render(s)

SpecStats == InitStats /\ [][NextStats]_vars

\* ------------------------------------------------------- the pure functions
\* the books whose progress is displayed: pages and currentPage, or no currentPage
ProgressBooks ==
    [pages : 0..MaxPages] \cup [pages : 0..MaxPages, currentPage : -1..(MaxPages + 2)]

\* Math.min over exact quotients <<numerator, denominator>>, denominators positive
MathMin(a, b) == IF a[1] * b[2] <= b[1] * a[2] THEN a ELSE b

\* a progress without its Math.min
readingProgressUncapped(book) ==
    IF Has(book, "pages") /\ book.pages # 0 /\ Has(book, "currentPage")
       /\ book.currentPage # 0
    THEN <<book.currentPage * 100, book.pages>>
    ELSE <<0, 1>>

\* book.pages && book.currentPage ? Math.min((book.currentPage / book.pages) * 100, 100)
\* : 0, as an exact quotient
readingProgress(book) ==
    IF Has(book, "pages") /\ book.pages # 0 /\ Has(book, "currentPage")
       /\ book.currentPage # 0
    THEN MathMin(<<book.currentPage * 100, book.pages>>, <<100, 1>>)
    ELSE <<0, 1>>

\* ------------------------------------------------------------ series titles
\* a title is the sequence of its characters; the characters the titles are written in
Numerals == <<"0", "1", "2">>
Whitespace == {" "}
Alphabet ==
    {"T", "H", "M", "B", "a", "b", "c", "e", "h", "i", "k", "n", "o", "r", "s", "t"}
      \cup {Numerals[n] : n \in 1..Len(Numerals)}
      \cup Whitespace \cup {"(", ")", "#", ":", "-"}

\* the parts of a regular expression: a quantified character class, captured or not,
\* and a literal, each of whose places accepts a set of characters
Lazy(class) == [kind |-> "lazy", min |-> 1, class |-> class, cap |-> TRUE, lit |-> <<>>]
Greedy(class) == [kind |-> "greedy", min |-> 1, class |-> class, cap |-> TRUE, lit |-> <<>>]
Spaces == [kind |-> "greedy", min |-> 0, class |-> Whitespace, cap |-> FALSE, lit |-> <<>>]
Lit(places) == [kind |-> "lit", min |-> 0, class |-> {}, cap |-> FALSE, lit |-> places]
Not(c) == Alphabet \ {c}
Number == Greedy({Numerals[n] : n \in 1..Len(Numerals)})
BookWord == Lit(<<{"B", "b"}, {"O", "o"}, {"O", "o"}, {"K", "k"}>>)

\* const patterns = [...], every one anchored at both ends
patterns ==
    << \* /^(.+?)\s*\(([^)]+?)\s*#(\d+)\)$/
       <<Lazy(Alphabet), Spaces, Lit(<<{"("}>>), Lazy(Not(")")), Spaces, Lit(<<{"#"}>>),
         Number, Lit(<<{")"}>>)>>,
       \* /^(.+?)\s*\(([^)]+?)\s*Book\s*(\d+)\)$/i
       <<Lazy(Alphabet), Spaces, Lit(<<{"("}>>), Lazy(Not(")")), Spaces, BookWord, Spaces,
         Number, Lit(<<{")"}>>)>>,
       \* /^([^:]+?)\s*#(\d+):\s*(.+)$/
       <<Lazy(Not(":")), Spaces, Lit(<<{"#"}>>), Number, Lit(<<{":"}>>), Spaces,
         Greedy(Alphabet)>>,
       \* /^([^:]+?)\s*Book\s*(\d+):\s*(.+)$/i
       <<Lazy(Not(":")), Spaces, BookWord, Spaces, Number, Lit(<<{":"}>>), Spaces,
         Greedy(Alphabet)>>,
       \* /^(.+?):\s*([^:]+?)\s*#(\d+)$/
       <<Lazy(Alphabet), Lit(<<{":"}>>), Spaces, Lazy(Not(":")), Spaces, Lit(<<{"#"}>>),
         Number>>,
       \* /^(.+?)\s*-\s*([^-]+?)\s*#(\d+)$/
       <<Lazy(Alphabet), Spaces, Lit(<<{"-"}>>), Spaces, Lazy(Not("-")), Spaces,
         Lit(<<{"#"}>>), Number>> >>

NoMatch == [ok |-> FALSE, groups |-> <<>>]

\* title.match(pattern) from part k of the pattern and place pos of the title, by
\* backtracking: a lazy part takes the fewest characters with which the rest matches,
\* a greedy part the most; groups are the captured parts in their order
RECURSIVE match(_, _, _, _)
match(pattern, k, title, pos) ==
    IF k > Len(pattern) THEN [ok |-> pos = Len(title) + 1, groups |-> <<>>]
    ELSE LET part == pattern[k]
         IN  IF part.kind = "lit"
             THEN IF /\ pos + Len(part.lit) - 1 <= Len(title)
                     /\ \A n \in 1..Len(part.lit) : title[pos + n - 1] \in part.lit[n]
                  THEN match(pattern, k + 1, title, pos + Len(part.lit))
                  ELSE NoMatch
             ELSE LET fits == {l \in part.min..(Len(title) - pos + 1) :
                                 /\ \A n \in pos..(pos + l - 1) : title[n] \in part.class
                                 /\ match(pattern, k + 1, title, pos + l).ok}
                  IN  IF fits = {} THEN NoMatch
                      ELSE LET l == IF part.kind = "lazy"
                                    THEN CHOOSE a \in fits : \A b \in fits : a <= b
                                    ELSE CHOOSE a \in fits : \A b \in fits : a >= b
                               rest == match(pattern, k + 1, title, pos + l)
                           IN  [ok |-> TRUE,
                                groups |-> (IF part.cap
                                            THEN <<SubSeq(title, pos, pos + l - 1)>>
                                            ELSE <<>>) \o rest.groups]

\* String.prototype.trim
trim(text) ==
    LET inked == {n \in 1..Len(text) : text[n] \notin Whitespace}
    IN  IF inked = {} THEN <<>>
        ELSE SubSeq(text, CHOOSE a \in inked : \A b \in inked : a <= b,
                    CHOOSE a \in inked : \A b \in inked : a >= b)

\* parseInt(digits, 10)
RECURSIVE parseInt(_)
parseInt(digits) ==
    IF digits = <<>> THEN 0
    ELSE parseInt(SubSeq(digits, 1, Len(digits) - 1)) * 10
           + (CHOOSE n \in 1..Len(Numerals) : Numerals[n] = digits[Len(digits)]) - 1

\* pattern.source.includes('#(\\d+):') || pattern.source.includes('Book\\s*(\\d+):'):
\* the number is captured right before a colon
NumberBeforeColon(pattern) ==
    \E k \in 1..(Len(pattern) - 1) : pattern[k] = Number /\ pattern[k + 1] = Lit(<<{":"}>>)

\* what the loop returns for the pattern that matched
Decomposed(pattern, groups) ==
    IF NumberBeforeColon(pattern)
    THEN [cleanTitle |-> trim(groups[3]), series |-> trim(groups[1]),
          seriesNumber |-> parseInt(groups[2])]
    ELSE [cleanTitle |-> trim(groups[1]), series |-> trim(groups[2]),
          seriesNumber |-> parseInt(groups[3])]

\* a loop that keeps the last pattern that matches
extractSeriesInfoLastMatch(title) ==
    LET hits == {p \in 1..Len(patterns) : match(patterns[p], 1, title, 1).ok}
    IN  IF hits = {} THEN [cleanTitle |-> title]
        ELSE LET p == CHOOSE a \in hits : \A b \in hits : a >= b
             IN  Decomposed(patterns[p], match(patterns[p], 1, title, 1).groups)

\* extractSeriesInfo: for (const pattern of patterns) the first match returns; no
\* match returns { cleanTitle: title }
extractSeriesInfo(title) ==
    LET hits == {p \in 1..Len(patterns) : match(patterns[p], 1, title, 1).ok}
    IN  IF hits = {} THEN [cleanTitle |-> title]
        ELSE LET p == CHOOSE a \in hits : \A b \in hits : a <= b
             IN  Decomposed(patterns[p], match(patterns[p], 1, title, 1).groups)

\* the titles the functions are applied to
TheHobbit == <<"T", "h", "e", " ", "H", "o", "b", "b", "i", "t">>
Mistborn == <<"M", "i", "s", "t", "b", "o", "r", "n">>
MistbornOne == Mistborn \o <<" ", "(">> \o Mistborn \o <<" ", "#", "1", ")">>
SampleTitles ==
    { TheHobbit, MistbornOne, Mistborn,
      <<"a", " ", "(", "s", " ", "B", "o", "o", "k", " ", "2", ")">>,
      <<"a", "(", "s", "#", "1", "0", ")">>,
      <<"s", " ", "#", "1", ":", " ", "a">>,
      <<"s", " ", "b", "o", "o", "k", "2", ":", "a", " ", "b">>,
      <<"a", ":", " ", "s", " ", "#", "1">>,
      <<"a", " ", "-", " ", "s", " ", "#", "2">>,
      <<"a", " ", "-", " ", "s", " ", "#", "0">>,
      <<"a", " ", "#", "1">>,
      <<"s", " ", "#", "1", ":", " ", "a", " ", "-", " ", "b", " ", "#", "2">>,
      <<"a", ":", " ", "b", " ", "-", " ", "s", " ", "#", "1">>,
      <<"a", ":", " ", "b", " ", "(", "s", " ", "#", "1", ")">>,
      <<"a", " ", "(", "s", ")", " ", "(", "t", " ", "#", "2", ")">> }

\* the arguments the functions are applied to
CalcArgs == [fn : {"readingProgress"}, arg : ProgressBooks, out : {<<>>}]
TitleArgs == [fn : {"extractSeriesInfo"}, arg : SampleTitles, out : {<<>>}]

InitCalc ==
    /\ store = [c \in Collections |-> [i \in {} |-> Empty]]
    /\ nextId = 1
    /\ now = 1
    /\ authUser = [s \in Sessions |-> NoUser]
    /\ op = [s \in Sessions |-> Idle]
    /\ calls = 0
    /\ user = [s \in Sessions |-> NoUser]
    /\ home = [s \in Sessions |-> NoHome]
    /\ listener = [s \in Sessions |-> [c \in Collections |-> NoListener]]
    /\ page = [s \in Sessions |-> NoPage]
    /\ scan = [s \in Sessions |-> NoScan]
    /\ stats = [s \in Sessions |-> NoStats]
    /\ authState = [s \in Sessions |-> NoAuth]
    /\ series = [s \in Sessions |-> NoSeries]
    /\ search = [s \in Sessions |-> NoSearch]
    /\ (calc \in CalcArgs \/ calc \in TitleArgs)

\* the book page renders its progress bar
Progress ==
    /\ calc.fn = "readingProgress" /\ calc.out = <<>>
    /\ calc' = [calc EXCEPT !.out = readingProgress(calc.arg)]
    /\ UNCHANGED <<store, nextId, now, authUser, op, calls, feed, page, scan, stats,
                   authState, series, search>>

\* a title is decomposed
Decompose ==
    /\ calc.fn = "extractSeriesInfo" /\ calc.out = <<>>
    /\ calc' = [calc EXCEPT !.out = extractSeriesInfo(calc.arg)]
    /\ UNCHANGED <<store, nextId, now, authUser, op, calls, feed, page, scan, stats,
                   authState, series, search>>

NextCalc ==
    \/ Progress
    \/ Decompose

SpecCalc == InitCalc /\ [][NextCalc]_vars

\* ------------------------------------------------- the book page's series tab
\* the titles the Google Books search finds for the author
FoundTitles ==
    { <<"b", " ", "-", " ", "s", " ", "#", "1">>,
      <<"a", " ", "-", " ", "s", " ", "#", "1">>,
      <<"a", " ", "-", " ", "s", " ", "#", "0">>,
      <<"t", "1">> }

\* the characters of a title held in the store
Spelling(title) == IF title = "t1" THEN <<"t", "1">> ELSE <<"t", "2">>

\* String.prototype.toLowerCase
toLowerCase(text) ==
    [n \in 1..Len(text) |->
       CASE text[n] = "T" -> "t" [] text[n] = "H" -> "h" [] text[n] = "M" -> "m"
         [] text[n] = "B" -> "b" [] OTHER -> text[n]]

\* String.prototype.includes
includes(text, part) ==
    \E n \in 0..(Len(text) - Len(part)) : SubSeq(text, n + 1, n + Len(part)) = part

\* the order in which the collation of localeCompare puts the characters of lower-case
\* titles: white space, punctuation, digits, letters
Collation ==
    <<" ", "-", ":", "(", ")", "#", "0", "1", "2", "a", "b", "c", "e", "h", "i", "k", "n",
      "o", "r", "s", "t">>

\* a.localeCompare(b) on lower-case titles: negative, zero or positive
RECURSIVE localeCompare(_, _)
localeCompare(a, b) ==
    IF a = <<>> \/ b = <<>> THEN Len(a) - Len(b)
    ELSE IF Head(a) = Head(b) THEN localeCompare(Tail(a), Tail(b))
         ELSE (CHOOSE n \in 1..Len(Collation) : Collation[n] = Head(a))
                - (CHOOSE n \in 1..Len(Collation) : Collation[n] = Head(b))

\* a.seriesNumber as a condition: a number other than 0
Numbered(a) == Has(a, "seriesNumber") /\ a.seriesNumber # 0

\* the comparison function handed to sort
compare(a, b) ==
    IF Numbered(a) /\ Numbered(b) THEN a.seriesNumber - b.seriesNumber
    ELSE IF Numbered(a) /\ ~Numbered(b) THEN -1
         ELSE IF ~Numbered(a) /\ Numbered(b) THEN 1
              ELSE localeCompare(a.title, b.title)

\* Array.prototype.sort, which is stable: an entry goes behind every entry that the
\* comparison does not put after it
RECURSIVE sort(_)
sort(list) ==
    IF list = <<>> THEN <<>>
    ELSE LET front == sort(SubSeq(list, 1, Len(list) - 1))
             last == list[Len(list)]
             keep == {n \in 0..Len(front) : \A m \in 1..n : compare(front[m], last) <= 0}
             at == CHOOSE n \in keep : \A m \in keep : n >= m
         IN  SubSeq(front, 1, at) \o <<last>> \o SubSeq(front, at + 1, Len(front))

\* books.map(book => ({ ..., seriesNumber: extractSeriesInfo(book.title).seriesNumber,
\* inLibrary: false }))
SeriesBookOf(title) ==
    Spread([title |-> title, inLibrary |-> FALSE],
           Only(extractSeriesInfo(title), {"seriesNumber"}))

\* searchSeriesBooks for the titles that searchBooks returned and, without a detected
\* series, the filter kept: the mapped entries, sorted
searchSeriesBooks(found) == sort([n \in 1..Len(found) |-> SeriesBookOf(found[n])])

\* the dependencies of the series effect as the page holds them
SeriesDeps(s) ==
    <<page[s].book, series[s].activeTab, Len(series[s].seriesBooks),
      series[s].loadingSeries>>

\* the series effect has run for what the page holds
SeriesRendered(s) == series[s].deps = SeriesDeps(s)

\* a click on a tab: setActiveTab(tab.key)
setActiveTab(s, tab) ==
    /\ page[s].open /\ page[s].book # Null
    /\ SeriesRendered(s)
    /\ series[s].activeTab # tab
    /\ series' = [series EXCEPT ![s].activeTab = tab, ![s].lookups = 0]
    /\ UNCHANGED <<store, nextId, now, authUser, op, calls, feed, page, scan, stats,
                   authState, search, calc>>

\* the effect on [book, activeTab, seriesBooks.length, loadingSeries] runs after a
\* rendering that changed one of them; under its condition it calls loadSeriesBooks,
\* which does setLoadingSeries(true) and awaits searchSeriesBooks
seriesEffect(s) ==
    /\ page[s].open
    /\ ~SeriesRendered(s)
    /\ LET load == /\ page[s].book # Null
                   /\ series[s].activeTab = "series"
                   /\ Len(series[s].seriesBooks) = 0
                   /\ ~series[s].loadingSeries
       IN  /\ load => series[s].lookups < MaxLookups
           /\ series' = [series EXCEPT ![s] =
                           IF load
                           THEN [@ EXCEPT !.loadingSeries = TRUE, !.pc = "searchSeriesBooks",
                                          !.lookups = @ + 1,
                                          !.deps = [SeriesDeps(s) EXCEPT ![4] = TRUE]]
                           ELSE [@ EXCEPT !.deps = SeriesDeps(s)]]
    /\ UNCHANGED <<store, nextId, now, authUser, op, calls, feed, page, scan, stats,
                   authState, search, calc>>

\* await searchSeriesBooks settles, with [] when the search failed; loadSeriesBooks goes
\* on to await firestoreStorage.getBooks()
searchSeriesBooksReply(s) ==
    /\ series[s].pc = "searchSeriesBooks"
    /\ op[s].pc = "idle"
    /\ Call
    /\ \E found \in Lists(FoundTitles, MaxFound) :
         series' = [series EXCEPT ![s].pc = "getBooks",
                                  ![s].books = searchSeriesBooks(found)]
    /\ IF authUser[s] = NoUser
       THEN Settle(s, "getBooks", COLLECTION_NAME, NoId, Result("list", <<>>))
       ELSE Start(s, "getBooks", "getDocs", COLLECTION_NAME, NoId, Empty, Empty, "series")
    /\ UNCHANGED <<store, nextId, now, authUser, feed, page, scan, stats, authState,
                   search, calc>>

\* loadSeriesBooks after await getBooks: setSeriesBooks(booksWithLibraryStatus), and
\* in finally setLoadingSeries(false)
loadSeriesBooksDone(s) ==
    /\ series[s].pc = "getBooks"
    /\ op[s].pc = "done" /\ op[s].name = "getBooks"
    /\ LET userBooks == op[s].res.val
           books == series[s].books
           inLibrary(seriesBook) ==
               \E n \in 1..Len(userBooks) :
                  LET title == toLowerCase(Spelling(userBooks[n].title))
                  IN  \/ includes(title, toLowerCase(seriesBook.title))
                      \/ includes(toLowerCase(seriesBook.title), title)
       IN  series' = [series EXCEPT
                        ![s].seriesBooks =
                           [n \in 1..Len(books) |->
                              [books[n] EXCEPT !.inLibrary = inLibrary(books[n])]],
                        ![s].loadingSeries = FALSE,
                        ![s].books = <<>>,
                        ![s].pc = "idle"]
    /\ op' = [op EXCEPT ![s] = Idle]
    /\ UNCHANGED <<store, nextId, now, authUser, calls, feed, page, scan, stats,
                   authState, search, calc>>

\* the series tab of the book page; its button 'Try searching again' is part of a
\* rendering with an empty list and no lookup running, after which the effect starts a
\* lookup before a click is handled
Series(s) ==
    \/ \E tab \in {"overview", "series"} : setActiveTab(s, tab)
    \/ seriesEffect(s)
    \/ searchSeriesBooksReply(s)
    \/ loadSeriesBooksDone(s)

\* one reader of the book page who looks at its series tab
NextSeries ==
    \/ \E s \in Readers : \E u \in Users : SignIn(s, u)
    \/ \E s \in Readers : \E id \in Ids : loadBook(s, id)
    \/ \E s \in Readers : loadBookFound(s)
    \/ \E s \in Readers : getBooksReply(s)
    \/ \E s \in Readers : Series(s)

SpecSeries == InitPage /\ [][NextSeries]_vars

\* --------------------------------------------------------- the AuthProvider
\* the functions of the provider that sign a user in
SignIns == {"signIn", "signUp", "signInWithGoogle"}

\* error instanceof Error ? error.message : '... failed'
ErrorMessage(how, thrown) ==
    IF thrown # "" THEN thrown
    ELSE CASE how = "signIn" -> "Sign in failed"
           [] how = "signUp" -> "Sign up failed"
           [] OTHER -> "Google sign in failed"

\* what authService throws: an Error with its message, or something else
Thrown == {"auth/invalid-credential", "auth/network-request-failed", ""}

\* the provider returns its Provider with the children, and not the screen
\* 'Application Error' that it returns if (error && !user && !loading)
ChildrenRendered(s) ==
    ~(authState[s].error # "" /\ user[s] = NoUser /\ ~authState[s].loading)

\* Home returns <LoginPage /> for no user, once it is past if (loading)
LoginPageRendered(s) ==
    ChildrenRendered(s) /\ ~authState[s].loading /\ user[s] = NoUser

\* LoginPage.handleSubmit or handleGoogleSignIn calls signIn, signUp or
\* signInWithGoogle of the provider: setLoading(true), setError(null), await
signInCall(s, how) ==
    /\ LoginPageRendered(s)
    /\ authState[s].pc = "idle"
    /\ authState' = [authState EXCEPT ![s] = [loading |-> TRUE, error |-> "", pc |-> how]]
    /\ UNCHANGED <<store, nextId, now, authUser, op, calls, feed, page, scan, stats,
                   series, search, calc>>

\* the await rejects: catch does setError(errorMessage) and rethrows, finally does
\* setLoading(false)
signInFailed(s, thrown) ==
    /\ authState[s].pc \in SignIns
    /\ authState' = [authState EXCEPT ![s] =
                       [loading |-> FALSE, error |-> ErrorMessage(authState[s].pc, thrown),
                        pc |-> "idle"]]
    /\ UNCHANGED <<store, nextId, now, authUser, op, calls, feed, page, scan, stats,
                   series, search, calc>>

\* the await resolves: auth.currentUser is u, the onAuthStateChanged callback does
\* setUser(user), setLoading(false), setError(null), and finally setLoading(false)
signInDone(s, u) ==
    /\ authState[s].pc \in SignIns
    /\ authUser' = [authUser EXCEPT ![s] = u]
    /\ user' = [user EXCEPT ![s] = u]
    /\ authState' = [authState EXCEPT ![s] = NoAuth]
    /\ UNCHANGED <<store, nextId, now, op, calls, home, listener, page, scan, stats,
                   series, search, calc>>

\* the button Reload Page of the screen 'Application Error': window.location.reload(),
\* after which the provider starts again and onAuthStateChanged reports
reload(s) ==
    /\ ~ChildrenRendered(s)
    /\ authState' = [authState EXCEPT ![s] = NoAuth]
    /\ user' = [user EXCEPT ![s] = authUser[s]]
    /\ UNCHANGED <<store, nextId, now, authUser, op, calls, home, listener, page, scan,
                   stats, series, search, calc>>

\* the sessions at their login pages
NextAuth ==
    \/ \E s \in Sessions : \E how \in SignIns : signInCall(s, how)
    \/ \E s \in Sessions : \E thrown \in Thrown : signInFailed(s, thrown)
    \/ \E s \in Sessions : \E u \in Users : signInDone(s, u)
    \/ \E s \in Sessions : reload(s)
    \/ \E s \in Sessions : authState[s].pc = "idle" /\ SignOut(s)

SpecAuth == Init /\ [][NextAuth]_vars

\* ------------------------------------------- the wishlist's button Add
\* a wishlist that holds one entry of u1; no Book is stored
Wished ==
    Created([c \in Collections |-> [i \in {} |-> Empty]], WISHLIST_COLLECTION_NAME, 1,
            convertToFirestoreDoc(WISHLIST_COLLECTION_NAME,
                                  [title |-> "t1", isbn |-> "i1", pages |-> 1, dateAdded |-> 1],
                                  "u1", 1))

InitMove ==
    /\ store = Wished
    /\ nextId = 1
    /\ now = 1
    /\ authUser = [s \in Sessions |-> NoUser]
    /\ op = [s \in Sessions |-> Idle]
    /\ calls = MaxMoves
    /\ user = [s \in Sessions |-> NoUser]
    /\ home = [s \in Sessions |-> NoHome]
    /\ listener = [s \in Sessions |-> [c \in Collections |-> NoListener]]
    /\ page = [s \in Sessions |-> NoPage]
    /\ scan = [s \in Sessions |-> NoScan]
    /\ stats = [s \in Sessions |-> NoStats]
    /\ InitTabs

\* Home.handleMoveWishListBookToCollection(wishListBook.id), which the button Add of a
\* wishlist card calls: moveWishListBookToCollection with the default status, up to its
\* first await, whatever other calls are in flight
handleMoveWishListBookToCollection(s, wishListBookId) ==
    /\ Quiet
    /\ user[s] # NoUser
    /\ op[s].pc = "idle"
    /\ calls > 0
    /\ calls' = calls - 1
    /\ IF authUser[s] = NoUser
       THEN Settle(s, "move", WISHLIST_COLLECTION_NAME, wishListBookId, Result("null", <<>>))
       ELSE Start(s, "move", "getDocs", WISHLIST_COLLECTION_NAME, wishListBookId,
                  Empty, Empty, "currently-reading")
    /\ UNCHANGED <<store, nextId, now, authUser, feed, views>>

\* two sessions at the wishlist of the home page
NextMove ==
    \/ Tick
    \/ \E s \in Sessions : \E u \in Users : SignIn(s, u)
    \/ \E s \in Sessions : \E id \in Ids : handleMoveWishListBookToCollection(s, id)
    \/ \E s \in Sessions : moveRead(s) \/ moveAdd(s) \/ moveDelete(s)
    \/ \E s \in Sessions : Return(s)

SpecMove == InitMove /\ [][NextMove]_vars

\* ------------------------------------------------------ the search dialog
\* what is typed into the search field, as characters
Queries == {<<>>, <<"a">>, <<"a", " ">>, <<"a", "b">>, <<"a", "b", "c">>}

\* googleBooksAPI.searchBooks(query, 20) when the request succeeds: the volumes that
\* match the query, here one volume named after it; [] when it fails
Volumes(query, ok) == IF ok THEN <<[id |-> trim(query)]>> ELSE <<>>

\* the input's onChange does setSearchQuery(q); the effect on [searchQuery] runs its
\* cleanup and itself: clearTimeout, then setSearchResults([]) for a trimmed query
\* shorter than 2, or else setTimeout(..., 300)
setSearchQuery(s, q) ==
    /\ q # search[s].searchQuery
    /\ search' = [search EXCEPT ![s] =
                    IF Len(trim(q)) < 2
                    THEN [@ EXCEPT !.searchQuery = q, !.timer = {}, !.searchResults = <<>>]
                    ELSE [@ EXCEPT !.searchQuery = q, !.timer = {q}]]
    /\ UNCHANGED <<store, nextId, now, authUser, op, calls, feed, page, scan, stats,
                   authState, series, calc>>

\* the timeout fires: setIsSearching(true) and searchBooks(searchQuery, 20), with the
\* query of the rendering that set the timeout, is awaited
searchTimeout(s) ==
    /\ search[s].timer # {}
    /\ search[s].searches < MaxSearches
    /\ search' = [search EXCEPT ![s].timer = {},
                                ![s].isSearching = TRUE,
                                ![s].inFlight = @ \cup search[s].timer,
                                ![s].issued = CHOOSE q \in search[s].timer : TRUE,
                                ![s].searches = @ + 1]
    /\ UNCHANGED <<store, nextId, now, authUser, op, calls, feed, page, scan, stats,
                   authState, series, calc>>

\* an awaited searchBooks settles: setSearchResults(results), and in finally
\* setIsSearching(false)
searchBooksSettled(s, q) ==
    /\ q \in search[s].inFlight
    /\ \E ok \in BOOLEAN :
         search' = [search EXCEPT ![s].searchResults = Volumes(q, ok),
                                  ![s].isSearching = FALSE,
                                  ![s].inFlight = @ \ {q}]
    /\ UNCHANGED <<store, nextId, now, authUser, op, calls, feed, page, scan, stats,
                   authState, series, calc>>

\* one session types into the search dialog
NextSearch ==
    \/ \E s \in Viewers : \E q \in Queries : setSearchQuery(s, q)
    \/ \E s \in Viewers : searchTimeout(s)
    \/ \E s \in Viewers : \E q \in Queries : searchBooksSettled(s, q)

SpecSearch == Init /\ [][NextSearch]_vars

\* ------------------------------------------------- the adapter's partition
\* Partial<Book> has the optional userId: updates that name an owner
Handovers == {Arg([userId |-> u], {}) : u \in Users}

\* the adapter's writing functions, called by the users of two sessions
NextRules ==
    \/ \E s \in Sessions : Return(s)
    \/ \E s \in Sessions : Auth(s)
    \/ \E s \in Sessions : \E c \in Collections : \E in \in Inputs(c, now) : addBook(s, c, in)
    \/ \E s \in Sessions : \E c \in Collections, id \in Ids : deleteBook(s, c, id)
    \/ \E s \in Sessions : \E id \in Ids, in \in UpdateInputs(now) \cup Handovers :
          updateBook(s, id, in)
    \/ \E s \in Sessions : addBookReply(s) \/ updateBookWrite(s) \/ updateBookRead(s)
    \/ \E s \in Sessions : deleteBookReply(s)

SpecRules == Init /\ [][NextRules]_vars

\* ------------------------------------------------------------- properties
\* the documents of collection c that belong to userId
UserDocs(st, c, userId) ==
    {i \in DOMAIN st[c] : Has(st[c][i], "userId") /\ st[c][i].userId = userId}

\* list is the whole of userId's part of collection c, every record once and as
\* stored, the later dateAdded first
Entire(list, st, c, userId) ==
    /\ {list[n].id : n \in 1..Len(list)} = UserDocs(st, c, userId)
    /\ Len(list) = Cardinality(UserDocs(st, c, userId))
    /\ \A n \in 1..Len(list) :
         list[n] = convertFirestoreDoc(c, list[n].id, st[c][list[n].id], now)
    /\ \A n, m \in 1..Len(list) : n < m => list[n].dateAdded >= list[m].dateAdded

\* o[k] as a one-element tuple, or <<>> when k is not defined in o
Opt(o, k) == IF Has(o, k) THEN <<o[k]>> ELSE <<>>

\* session s is in a call of the function name that has settled
Done(s, name) == op[s].name = name /\ op[s].pc = "done"

\* C1: when updateBook(id, updates) has written, every field that updates gives a
\* defined value has that value in the stored record and in the record returned, every
\* other field of the record (those given as undefined among them) and every other
\* record is as it was; with {} nothing changes
C1_UpdateFrame ==
    [][\A s \in Sessions :
         /\ (op[s].name = "updateBook" /\ op[s].pc = "updateDoc" /\ op'[s].pc = "getDocs") =>
              LET c == op[s].c
                  id == op[s].id
                  was == store[c][id]
                  is == store'[c][id]
                  rec == convertFirestoreDoc(c, id, is, now)
              IN  /\ \A k \in DOMAIN op[s].obj : Has(rec, k) /\ rec[k] = op[s].obj[k]
                  /\ \A k \in (DOMAIN was \cup DOMAIN is) \ DOMAIN op[s].obj :
                       Opt(is, k) = Opt(was, k)
                  /\ \A d \in Collections :
                       /\ DOMAIN store'[d] = DOMAIN store[d]
                       /\ \A i \in DOMAIN store[d] :
                            (d # c \/ i # id) => store'[d][i] = store[d][i]
                  /\ op[s].obj = Empty => store' = store
         /\ (op[s].name = "updateBook" /\ op[s].pc = "getDocs"
               /\ op'[s].pc = "done" /\ op'[s].res.kind = "record") =>
              /\ store' = store
              /\ \A k \in DOMAIN op[s].obj : op'[s].res.val[1][k] = op[s].obj[k]]_vars

\* an updateBook has written a partial with defined and undefined fields over a record
\* that holds a value for the undefined one
C1_Witness ==
    \E s \in Sessions :
      /\ op[s].name = "updateBook" /\ op[s].pc = "getDocs" /\ op[s].wrote
      /\ DOMAIN op[s].obj # {}
      /\ \E k \in op[s].undef :
           /\ Has(store[op[s].c][op[s].id], k)
           /\ k \in {"dateStarted", "dateFinished"} => store[op[s].c][op[s].id][k] # Null

\* C2: the step that settles addBook / addWishListBook either leaves the store as it
\* was and rethrows the failure, or adds exactly the new record and returns it: a create
\* that fails never returns normally and never adds a record to either collection
C2_AddFailurePropagates ==
    [][\A s \in Sessions :
         (op'[s].name = "addBook" /\ op'[s].pc = "done" /\ op[s].pc # "done") =>
           IF store' = store
           THEN op'[s].res.kind = "throw"
           ELSE /\ op'[s].res.kind = "record"
                /\ store' = Created(store, op'[s].c, op'[s].res.val[1].id, op[s].doc)
                /\ op'[s].res.val[1].id \notin DOMAIN store[op'[s].c]]_vars

\* an addBook whose request went out has failed and thrown
C2_Witness ==
    \E s \in Sessions :
      Done(s, "addBook") /\ op[s].res.kind = "throw" /\ op[s].doc # Empty

\* C3: getBooks / getWishListBooks called with an identity never throw; they return
\* [] (the read failed) or the whole of that user's part of the collection, nothing of
\* another user's, the later dateAdded first
C3_GetBooks ==
    \A s \in Sessions :
      (Done(s, "getBooks") /\ op[s].uid # NoUser) =>
        /\ op[s].res.kind = "list"
        /\ \/ op[s].res.val = <<>>
           \/ Entire(op[s].res.val, store, op[s].c, op[s].uid)

\* getBooks has returned two records added at different times
C3_Witness ==
    \E s \in Sessions :
      /\ Done(s, "getBooks") /\ op[s].uid # NoUser
      /\ Len(op[s].res.val) = 2
      /\ op[s].res.val[1].dateAdded > op[s].res.val[2].dateAdded

\* C4: getBooks() called with no identity throws a not-authenticated error
C4_GetBooksThrows ==
    \A s \in Sessions :
      (Done(s, "getBooks") /\ op[s].c = COLLECTION_NAME /\ op[s].uid = NoUser) =>
        op[s].res.kind = "throw"

\* C5: addBook, updateBook, deleteBook, checkBookExists and their wishlist counterparts
\* called with no identity throw a not-authenticated error and write nothing
C5_UnauthenticatedThrows ==
    \A s \in Sessions :
      ( /\ op[s].pc = "done" /\ op[s].uid = NoUser
        /\ op[s].name \in {"addBook", "updateBook", "deleteBook", "checkBookExists"} ) =>
        op[s].res.kind = "throw" /\ ~op[s].wrote

\* C6: updateBook and deleteBook never throw: updateBook returns the record or null,
\* deleteBook true or false, and when null or false is returned the call has left the
\* store as it was
C6_NullMeansUnchanged ==
    \A s \in Sessions :
      /\ Done(s, "updateBook") =>
           /\ op[s].res.kind \in {"record", "null"}
           /\ op[s].res.kind = "null" => ~op[s].wrote
      /\ Done(s, "deleteBook") =>
           /\ op[s].res.kind \in {"true", "false"}
           /\ op[s].res.kind = "false" => ~op[s].wrote

\* userId's part of collection c as stored
Part(st, c, userId) == [i \in UserDocs(st, c, userId) |-> st[c][i]]

\* C7: while a listener made by onBooksChange / onWishListBooksChange is active, a
\* change to its user's part of the collection leaves a snapshot due, a snapshot that
\* is due stays due until the callback has been given it, a snapshot that is due is
\* delivered unless the listener ends first, and the callback is given the whole of that
\* user's part of the collection as it then is, the later dateAdded first; once
\* unsubscribed the callback is not invoked and the list it set stays as it is
C7_Subscription ==
    /\ \A s \in Sessions, c \in Collections :
         (listener[s][c].status = "active" /\ listener[s][c].pending)
           ~> (listener[s][c].status # "active" \/ ~listener[s][c].pending)
    /\ [][\A s \in Sessions, c \in Collections :
         LET l == listener[s][c]
             k == listener'[s][c]
             live == l.status = "active" /\ k.status = "active" /\ k.uid = l.uid
         IN  /\ ( \/ onSnapshotNext(s, c)
                  \/ /\ home[s].mounted /\ home'[s].mounted
                     /\ home'[s][c] # home[s][c] /\ k.status # "error" ) =>
                  /\ l.status = "active"
                  /\ Entire(home'[s][c], store', c, l.uid)
             /\ (live /\ Part(store', c, l.uid) # Part(store, c, l.uid)) => k.pending
             /\ (live /\ l.pending /\ ~k.pending) =>
                  Entire(home'[s][c], store', c, l.uid)
             /\ l.status # "active" =>
                  /\ ~onSnapshotNext(s, c) /\ ~onSnapshotError(s, c)
                  /\ (home[s].mounted /\ home'[s].mounted) => home'[s][c] = home[s][c]]_vars

\* a live listener has delivered two records added at different times
C7_Witness ==
    \E s \in Sessions :
      /\ listener[s][COLLECTION_NAME].status = "active"
      /\ ~listener[s][COLLECTION_NAME].pending
      /\ Len(home[s].books) = 2
      /\ home[s].books[1].dateAdded > home[s].books[2].dateAdded

\* C8: a listener's error invokes the callback with [] and ends the listener; from
\* then on nothing is delivered to the list it set, and only the effect running again
\* for another user subscribes again
C8_ListenerError ==
    [][\A s \in Sessions, c \in Collections :
         LET l == listener[s][c]
             k == listener'[s][c]
         IN  /\ onSnapshotError(s, c) =>
                  /\ home'[s][c] = <<>>
                  /\ k.status = "error"
             /\ l.status = "error" =>
                  /\ ~onSnapshotNext(s, c) /\ ~onSnapshotError(s, c)
                  /\ (home[s].mounted /\ home'[s].mounted) => home'[s][c] = home[s][c]
                  /\ k.status = "active" => home'[s].deps # home[s].deps]_vars

\* the listener on a user's books has failed while the user has books stored, and the
\* home page shows none
C8_Witness ==
    \E s \in Sessions :
      /\ listener[s][COLLECTION_NAME].status = "error"
      /\ home[s].mounted /\ home[s].books = <<>>
      /\ authUser[s] # NoUser
      /\ UserDocs(store, COLLECTION_NAME, authUser[s]) # {}

\* C9: moveWishListBookToCollection with an id that is not in the caller's wishlist
\* settles with null at its read, and no step of it changes either collection
C9_MoveMissing ==
    [][\A s \in Sessions :
         ( /\ op'[s].name = "move" /\ op'[s].pc # op[s].pc
           /\ op[s].pc \in {"idle", "getDocs"}
           /\ op'[s].id \notin UserDocs(store, WISHLIST_COLLECTION_NAME, authUser[s]) ) =>
           /\ store' = store
           /\ op[s].pc = "getDocs" => op'[s].pc = "done"
           /\ op'[s].pc = "done" => op'[s].res.kind = "null"]_vars

\* a signed-in user whose wishlist holds an entry has moved an id that it does not hold
C9_Witness ==
    \E s \in Sessions :
      /\ Done(s, "move") /\ op[s].res.kind = "null" /\ op[s].uid # NoUser
      /\ authUser[s] = op[s].uid
      /\ UserDocs(store, WISHLIST_COLLECTION_NAME, op[s].uid) # {}
      /\ op[s].id \notin UserDocs(store, WISHLIST_COLLECTION_NAME, op[s].uid)
      /\ ~op[s].wrote

\* the titles of userId's records in collection c
TitlesOf(st, c, userId) == {st[c][i].title : i \in UserDocs(st, c, userId)}

\* C10: a move deletes the wishlist entry only at its last step, when the Book it
\* created is stored; no step of a move takes the title out of both collections; when
\* the create fails the store is as it was and null is returned; when the create has
\* succeeded the Book is returned whether or not the delete succeeds, and a failed
\* delete leaves the wishlist entry
C10_MoveOrder ==
    [][\A s \in Sessions :
         (op[s].name = "move" /\ op'[s].pc # op[s].pc) =>
           LET w == WISHLIST_COLLECTION_NAME
               b == COLLECTION_NAME
               id == op[s].id
           IN  /\ store'[w] # store[w] =>
                    /\ op[s].pc = "deleteDoc"
                    /\ store' = Deleted(store, w, id)
                    /\ op[s].obj.id \in DOMAIN store[b]
                    /\ store[b][op[s].obj.id].title = store[w][id].title
               /\ id \in UserDocs(store, w, op[s].uid) =>
                    store[w][id].title \in TitlesOf(store', w, op[s].uid)
                                             \cup TitlesOf(store', b, op[s].uid)
               /\ op[s].pc = "addDoc" =>
                    \/ /\ op'[s].pc = "done" /\ op'[s].res.kind = "null"
                       /\ store' = store
                    \/ /\ op'[s].pc = "deleteDoc"
                       /\ store'[w] = store[w]
                       /\ op'[s].obj.id \in DOMAIN store'[b] \ DOMAIN store[b]
                       /\ store'[b][op'[s].obj.id].title = store[w][id].title
               /\ op[s].pc = "deleteDoc" =>
                    /\ op'[s].pc = "done" /\ op'[s].res.kind = "record"
                    /\ op'[s].res.val[1] = op[s].obj
                    /\ store'[b] = store[b]]_vars

\* a move has created the Book, failed to delete the wishlist entry and returned the Book
C10_Witness ==
    \E s \in Sessions :
      /\ Done(s, "move") /\ op[s].res.kind = "record"
      /\ op[s].id \in DOMAIN store[WISHLIST_COLLECTION_NAME]
      /\ op[s].res.val[1].id \in DOMAIN store[COLLECTION_NAME]

\* the stored date k of a record, in milliseconds
DateOf(data, k) == toDate(data[k])

\* session s's updateBook, made by the book page, is applied by this step
PageWrites(s) ==
    /\ op[s].name = "updateBook" /\ op[s].arg = "page" /\ op[s].pc = "updateDoc"
    /\ op'[s].pc = "getDocs"

\* C11: every status change of a Book to read leaves the stored record with
\* dateFinished set and dateStarted set (backfilled if it was absent), and a later
\* status change away from read leaves both dates present
C11_ReadSetsBothDates ==
    [][\A s \in Sessions :
         PageWrites(s) /\ Has(op[s].obj, "status") =>
           LET was == store[COLLECTION_NAME][op[s].id]
               is == store'[COLLECTION_NAME][op[s].id]
           IN  /\ op[s].obj.status = "read" =>
                    Truthy(is, "dateFinished") /\ Truthy(is, "dateStarted")
               /\ was.status = "read" /\ op[s].obj.status # "read" =>
                    \A k \in {"dateStarted", "dateFinished"} :
                       Truthy(was, k) => Truthy(is, k)]_vars

\* C12: once dateStarted or dateFinished of a Book is set, no later step alters its
\* stored value
C12_DatesFirstRecorded ==
    [][\A i \in DOMAIN store[COLLECTION_NAME] \cap DOMAIN store'[COLLECTION_NAME] :
         \A k \in {"dateStarted", "dateFinished"} :
            Truthy(store[COLLECTION_NAME][i], k) =>
              /\ Has(store'[COLLECTION_NAME][i], k)
              /\ store'[COLLECTION_NAME][i][k] = store[COLLECTION_NAME][i][k]]_vars

\* C13: every stored Book that has both dates has dateFinished >= dateStarted
C13_FinishedAfterStarted ==
    \A i \in DOMAIN store[COLLECTION_NAME] :
       LET data == store[COLLECTION_NAME][i]
       IN  Truthy(data, "dateStarted") /\ Truthy(data, "dateFinished") =>
             DateOf(data, "dateFinished") >= DateOf(data, "dateStarted")

\* C14: every stored Book that has both currentPage and pages has currentPage <= pages
C14_CurrentPageWithinPages ==
    \A i \in DOMAIN store[COLLECTION_NAME] :
       LET data == store[COLLECTION_NAME][i]
       IN  Has(data, "currentPage") /\ Has(data, "pages") =>
             data.currentPage <= data.pages

\* the fields an updateBook in flight is meant to change: a card changes the rating,
\* the book page the fields of its updates
Changes(s) == IF op[s].arg = "card" THEN {"rating"} ELSE DOMAIN op[s].obj

\* C15: when two updates of the same Book that change disjoint fields are in flight
\* together, the change of the one written first is still in the stored record after
\* the other is written
C15_DisjointUpdatesBothApply ==
    [][\A s, t \in Sessions :
         /\ s # t
         /\ op[s].name = "updateBook" /\ op[s].pc = "updateDoc" /\ op'[s].pc = "getDocs"
         /\ op[t].name = "updateBook" /\ op[t].pc = "getDocs"
         /\ op[t].id = op[s].id
         /\ Changes(s) \cap Changes(t) = {}
         => \A k \in Changes(t) :
               store'[COLLECTION_NAME][op[s].id][k] = op[t].doc[k]]_vars

\* C16: once the listener effect of a session has run for its current user, the active
\* listeners of the session are those of a mounted home page, registered for the user
\* now signed in, and a mounted home page with a user has its listeners registered
C16_ListenersTornDown ==
    \A s \in Sessions :
       (home[s].mounted => home[s].deps = user[s]) =>
          \A c \in Collections :
             /\ listener[s][c].status = "active" =>
                  /\ home[s].mounted
                  /\ user[s] # NoUser
                  /\ listener[s][c].uid = user[s]
             /\ home[s].mounted /\ user[s] # NoUser =>
                  listener[s][c].status \in {"active", "error"}

\* a home page that has shown a user's books, after the sign-out: its listeners are gone
C16_Witness ==
    \E s \in Viewers :
       /\ home[s].mounted /\ home[s].deps = NoUser /\ user[s] = NoUser
       /\ Len(home[s].books) > 0
       /\ \A c \in Collections : listener[s][c].status = "none"

C18_DateAddedImmutable ==
    [][\A i \in DOMAIN store[COLLECTION_NAME] \cap DOMAIN store'[COLLECTION_NAME] :
         /\ Has(store'[COLLECTION_NAME][i], "dateAdded")
         /\ store'[COLLECTION_NAME][i].dateAdded = store[COLLECTION_NAME][i].dateAdded]_vars

\* the digits of a decoded text, in their order
RECURSIVE DigitsOf(_)
DigitsOf(text) ==
    IF text = <<>> THEN <<>>
    ELSE (IF Head(text) \in DigitChars THEN <<Head(text)>> ELSE <<>>) \o DigitsOf(Tail(text))

\* C19: a decoded text with fewer than 10 digits is rejected: the handler sends no
\* search and no existence check, sets no scanned book and sets the invalid-barcode
\* message; any other text is searched for by its digits alone
C19_InvalidBarcodeRejected ==
    [][\A s \in Sessions, result \in Barcodes :
         handleBarcodeScan(s, result) =>
           IF Len(DigitsOf(result)) < 10
           THEN /\ scan'[s].pc = "idle"
                /\ scan'[s].isbn = scan[s].isbn
                /\ op' = op
                /\ scan'[s].scannedBook = Null
                /\ scan'[s].error = InvalidBarcode
           ELSE /\ scan'[s].pc = "search"
                /\ scan'[s].isbn = DigitsOf(result)]_vars

\* a text of ten characters, nine of them digits, has been rejected
C19_Witness ==
    \E s \in Sessions :
       /\ Len(scan[s].result) >= 10
       /\ Len(DigitsOf(scan[s].result)) < 10
       /\ scan[s].error = InvalidBarcode
       /\ scan[s].scannedBook = Null
       /\ scan[s].pc = "idle"

\* the positions of the books of a list that have the status
With(books, status) == {n \in 1..Len(books) : books[n].status = status}

\* the pages of the books at the positions ns, a book without pages counting 0
RECURSIVE PagesOf(_, _)
PagesOf(books, ns) ==
    IF ns = {} THEN 0
    ELSE LET n == CHOOSE n \in ns : TRUE
         IN  (IF Has(books[n], "pages") THEN books[n].pages ELSE 0)
               + PagesOf(books, ns \ {n})

\* C20: the statistics a home page shows are the number of its books that are read,
\* the number that are currently-reading, the number of its books, the length of its
\* wishlist, and the sum of pages over its read books alone, a missing pages being 0
C20_Stats ==
    \A s \in Sessions :
       stats[s] # NoStats =>
          LET books == home[s].books
          IN  /\ stats[s].stats.completed = Cardinality(With(books, "read"))
              /\ stats[s].stats.reading = Cardinality(With(books, "currently-reading"))
              /\ stats[s].tabs["all"] = Len(books)
              /\ stats[s].stats.wishList = Len(home[s].wishlist)
              /\ stats[s].stats.totalPages = PagesOf(books, With(books, "read"))

\* one read book of 300 pages, one currently-reading book of 200 pages and an empty
\* wishlist give total 2, read 1, currently reading 1, wishlist 0, pages read 300
C20_Witness ==
    \E s \in Viewers :
       /\ home[s].books = <<[status |-> "read", pages |-> 300],
                            [status |-> "currently-reading", pages |-> 200]>>
       /\ home[s].wishlist = <<>>
       /\ stats[s] # NoStats
       /\ stats[s].tabs["all"] = 2
       /\ stats[s].stats = [reading |-> 1, completed |-> 1, totalPages |-> 300,
                            wishList |-> 0]

\* C21: for a book with pages > 0 the displayed progress is
\* min(currentPage / pages * 100, 100), a missing currentPage counting 0, and it is
\* never more than 100
C21_ProgressCapped ==
    (calc.fn = "readingProgress" /\ calc.out # <<>> /\ calc.arg.pages > 0) =>
       LET pages == calc.arg.pages
           currentPage == IF Has(calc.arg, "currentPage") THEN calc.arg.currentPage ELSE 0
       IN  /\ calc.out[2] > 0
           /\ calc.out[1] <= 100 * calc.out[2]
           /\ IF currentPage * 100 <= 100 * pages
              THEN calc.out[1] * pages = currentPage * 100 * calc.out[2]
              ELSE calc.out[1] = 100 * calc.out[2]

\* a book whose currentPage is beyond its pages is displayed at 100
C21_Witness ==
    /\ calc.fn = "readingProgress"
    /\ Has(calc.arg, "currentPage") /\ calc.arg.pages > 0
    /\ calc.arg.currentPage > calc.arg.pages
    /\ calc.out = <<100, 1>>

\* the patterns that match a title
Matching(title) == {p \in 1..Len(patterns) : match(patterns[p], 1, title, 1).ok}

\* C23: extractSeriesInfo returns the decomposition of the first of its six patterns,
\* in their listed order, that matches the title; a title that matches none comes back
\* unchanged as the clean title, without series and series number, as "The Hobbit"
\* does; "Mistborn (Mistborn #1)" gives clean title "Mistborn", series "Mistborn" and
\* series number 1
C23_FirstPatternWins ==
    (calc.fn = "extractSeriesInfo" /\ calc.out # <<>>) =>
       LET title == calc.arg
           hits == Matching(title)
       IN  /\ Len(patterns) = 6
           /\ hits = {} => /\ DOMAIN calc.out = {"cleanTitle"}
                           /\ calc.out.cleanTitle = title
           /\ hits # {} =>
                \E p \in hits :
                   /\ \A q \in hits : p <= q
                   /\ calc.out = Decomposed(patterns[p],
                                            match(patterns[p], 1, title, 1).groups)
           /\ title = TheHobbit => hits = {}
           /\ title = MistbornOne =>
                calc.out = [cleanTitle |-> Mistborn, series |-> Mistborn,
                            seriesNumber |-> 1]
           /\ title = <<"s", " ", "#", "1", ":", " ", "a", " ", "-", " ", "b", " ", "#",
                        "2">> =>
                calc.out = [cleanTitle |-> <<"a", " ", "-", " ", "b", " ", "#", "2">>,
                            series |-> <<"s">>, seriesNumber |-> 1]

\* a title that two patterns match has been decomposed
C23_Witness ==
    /\ calc.fn = "extractSeriesInfo" /\ calc.out # <<>>
    /\ Cardinality(Matching(calc.arg)) > 1

\* the series number of an entry is known
Known(a) == Has(a, "seriesNumber")

\* C22: the list searchSeriesBooks returns is totally ordered: entries with a known
\* series number come before entries without one, the numbered entries ascend by
\* number, and entries with the same number, or both without one, are in the lexical
\* order of their titles; series number 0 and equal numbers included
C22_SeriesOrder ==
    \A s \in Readers :
       LET list == series[s].seriesBooks
       IN  \A i, j \in 1..Len(list) :
              i < j =>
                 LET a == list[i]
                     b == list[j]
                 IN  IF Known(a) /\ Known(b)
                     THEN \/ a.seriesNumber < b.seriesNumber
                          \/ /\ a.seriesNumber = b.seriesNumber
                             /\ localeCompare(a.title, b.title) <= 0
                     ELSE IF Known(a) # Known(b) THEN Known(a)
                          ELSE localeCompare(a.title, b.title) <= 0

\* C26: once the series tab is shown and a lookup has been started for it, no further
\* lookup starts by itself, whether the lookup ended with results, with none or in a
\* failure
C26_LookupsBounded ==
    [][\A s \in Readers :
          series'[s].lookups > series[s].lookups => series[s].lookups = 0]_vars

\* C24: from the moment the scanner shows a scanned book until it is reset, adding to
\* the library and adding to the wishlist are not offered for a book whose ISBN is in
\* the signed-in user's library or wishlist, and so no user comes to hold two records
\* with one ISBN
C24_NoAddForOwnedIsbn ==
    /\ \A s \in Readers :
          (AddOffered(s) /\ authUser[s] # NoUser) =>
             \A c \in Collections :
                QueryByIsbn(c, store, authUser[s], scan[s].scannedBook.isbn) = {}
    /\ \A u \in Users, isbn \in Isbns :
          Cardinality({<<c, i>> \in Collections \X Ids :
                         i \in QueryByIsbn(c, store, u, isbn)}) <= 1

\* C25: after a failed sign-in, sign-up or Google sign-in the provider has loading
\* false, no user and the error recorded, and it still renders its children, the login
\* page, so that signing in can be tried again
C25_FailedSignInRetryable ==
    \A s \in Sessions :
       (authState[s].pc = "idle" /\ authState[s].error # "") =>
          /\ ~authState[s].loading
          /\ user[s] = NoUser
          /\ ChildrenRendered(s)
          /\ LoginPageRendered(s)

\* C27: whenever the home page displays the library to a signed-in user, every Book and
\* every wishlist entry it holds in memory belongs to that user, also between the
\* sign-out of one user, the sign-in of another and the first snapshot for the new user
C27_OnlyOwnRecordsShown ==
    \A s \in Viewers :
       (home[s].mounted /\ user[s] # NoUser /\ ~home[s].firestoreError) =>
          \A c \in Collections :
             \A n \in 1..Len(home[s][c]) : home[s][c][n].userId = user[s]

\* the calls of moveWishListBookToCollection that are in flight
Moving == {s \in Sessions : op[s].name = "move" /\ op[s].pc \in {"getDocs", "addDoc", "deleteDoc"}}

\* C28: overlapping calls of moveWishListBookToCollection for one wishlist entry create
\* exactly one Book when nothing fails remotely: while every call made so far is still
\* in flight, and so none has failed, at most one Book has been created
C28_OneBookPerEntry ==
    (Cardinality(Moving) = MaxMoves - calls) =>
       Cardinality(DOMAIN store[COLLECTION_NAME]) <= 1

\* C29: the results the search dialog displays belong to the query issued last: a
\* response to an earlier query never replaces them, and while the query is shorter
\* than 2 characters the list stays empty
C29_ResultsOfLatestQuery ==
    \A s \in Viewers :
       /\ Len(trim(search[s].searchQuery)) < 2 => search[s].searchResults = <<>>
       /\ search[s].searchResults # <<>> =>
            search[s].searchResults = Volumes(search[s].issued, TRUE)

\* the owner of a document
Owner(st, c, i) == IF Has(st[c][i], "userId") THEN st[c][i].userId ELSE NoUser

\* C30: the store stays partitioned by user under every operation of the adapter: a
\* create, update or delete made by the user of a session neither changes nor removes
\* a record of another user, and leaves no new or changed record that belongs to
\* another user, so that what a user lists was created and last written by that user
C30_PartitionPreserved ==
    [][\A s \in Sessions :
          (op'[s] # op[s] /\ store' # store) =>
             \A c \in Collections, i \in Ids :
                /\ (i \in DOMAIN store[c] /\ Owner(store, c, i) # authUser[s]) =>
                      (i \in DOMAIN store'[c] /\ store'[c][i] = store[c][i])
                /\ (i \in DOMAIN store'[c] /\ Owner(store', c, i) # authUser[s]) =>
                      (i \in DOMAIN store[c] /\ store[c][i] = store'[c][i])]_vars

====
